---- MODULE Spec2Model ----
(***************************************************************************)
(* State-machine model of the token ledgers of the Stellar/Soroban         *)
(* contracts library: the fungible ledger (balances, total supply,         *)
(* time-bounded allowances) and the non-fungible ledgers (Base,            *)
(* Enumerable, Consecutive).                                               *)
(*                                                                         *)
(* Every contract invocation is one action.  The host commits all writes   *)
(* of an invocation or none of them: an invocation that panics leaves the  *)
(* stored state as it was and only records the error kind in `last`.       *)
(* Functions of the source are operators that take the invocation's        *)
(* working state (a record with an `err` field) and return the new one;    *)
(* the first error is kept and every later step is skipped.                *)
(***************************************************************************)
EXTENDS Integers, FiniteSets, Sequences, TLC

VARIABLES
    ledger,          \* e.ledger().sequence(), the host's logical clock
    fTotalSupply,    \* fungible StorageKey::TotalSupply (instance tier)
    fBalance,        \* fungible StorageKey::Balance(Address) (persistent tier)
    fAllowance,      \* fungible StorageKey::Allowance(AllowanceKey) (temporary tier)
    fCap,            \* capped CAP_KEY (instance tier); CapNotSet while absent
    fApproved,       \* history: {L} after a committed approve with amount > 0 and expiry L
    nOwner,          \* non-fungible StorageKey::Owner(TokenId) (persistent tier)
    nBalance,        \* non-fungible StorageKey::Balance(Address) (persistent tier)
    nApproval,       \* non-fungible StorageKey::Approval(TokenId) (temporary tier)
    nOperators,      \* non-fungible StorageKey::ApprovalForAll(Address) (temporary tier)
    counter,         \* sequential StorageKey::TokenIdCounter (instance tier)
    cBurned,         \* consecutive StorageKey::BurnedToken(TokenId) (persistent tier)
    hBurned,         \* history: the token ids for which a Base or Consecutive burn committed
    hMintedOver,     \* history: the mint operations that committed on an existing id
    eTotalSupply,    \* enumerable StorageKey::TotalSupply (instance tier)
    OwnerTokens,     \* enumerable StorageKey::OwnerTokens(owner, index) (persistent tier)
    OwnerTokensIndex,   \* enumerable StorageKey::OwnerTokensIndex(TokenId)
    GlobalTokens,       \* enumerable StorageKey::GlobalTokens(index)
    GlobalTokensIndex,  \* enumerable StorageKey::GlobalTokensIndex(TokenId)
    upgradeState,    \* upgradeable UPGRADE_KEY (instance tier); Unset while absent
    wasm,            \* the hash of the contract's current WASM bytecode
    hUpgraded,       \* history: the number of upgrade invocations that committed
    hMigrated,       \* history: the migrate invocations committed since the last upgrade
    hRolledBack,     \* history: the rollback invocations committed since the last upgrade
    last             \* the last invocation: operation, outcome, arguments if committed

fvars == <<fTotalSupply, fBalance, fAllowance, fCap, fApproved>>

evars == <<eTotalSupply, OwnerTokens, OwnerTokensIndex, GlobalTokens, GlobalTokensIndex>>

nvars == <<nOwner, nBalance, nApproval, nOperators, counter, cBurned, hBurned, hMintedOver,
          evars>>

uvars == <<upgradeState, wasm, hUpgraded, hMigrated, hRolledBack>>

vars == <<ledger, fTotalSupply, fBalance, fAllowance, fCap, fApproved,
          nOwner, nBalance, nApproval, nOperators, counter, cBurned, hBurned,
          hMintedOver, eTotalSupply, OwnerTokens, OwnerTokensIndex, GlobalTokens, GlobalTokensIndex,
          upgradeState, wasm, hUpgraded, hMigrated, hRolledBack, last>>

(***************************************************************************)
(* Bounds                                                                  *)
(***************************************************************************)
\* the ledger sequence number runs over 0..MaxLedger
MaxLedger == 2
\* stand-in for the host's maximum entry lifetime (max_live_until_ledger)
MaxEntryTTL == 2
\* largest amount an invocation is called with
MaxAmount == 2
\* stand-in for i128::MAX
MaxI128 == 3
\* stand-in for TokenId::MAX (u32::MAX), the width of token ids and balances
MaxU32 == 3
\* largest amount batch_mint is called with
MaxBatch == 3

MaxUpgrades == 3
\* the highest token id OZStellarNFT.mint hands out (100 in lib.rs), scaled to
\* the model's id width
MaxMintedId == 1

WasmHashes == 0..MaxUpgrades

\* UPGRADE_KEY holds no value until the first write
Unset == "Unset"

Addr == {"a1", "a2"}
\* the accounts that grant and are granted allowances
Owners == {"a1"}
Spenders == {"a2"}
None == "none"
AddrOpt == Addr \cup {None}

TokenIds == 0..MaxU32

Amounts == (0 - 1)..MaxAmount
LiveInputs == 0..(MaxLedger + MaxEntryTTL)
\* expiry ledgers that non-fungible approvals are requested with (0 revokes)
NftLiveInputs == {0, 1}
\* the token ids for which approve is invoked
ApprovableIds == {0, 1}
\* the token ids passed to non_sequential_mint
NonSequentialIds == {0}

RECURSIVE SumOver(_, _)
SumOver(f, S) ==
    IF S = {} THEN 0
    ELSE LET x == CHOOSE y \in S : TRUE IN f[x] + SumOver(f, S \ {x})

(***************************************************************************)
(* Host                                                                    *)
(***************************************************************************)
\* e.ledger().max_live_until_ledger()
max_live_until_ledger == ledger + MaxEntryTTL - 1

\* Address::require_auth: the invocation is authorised by `signer`
require_auth(st, signer, account) ==
    IF st.err # "ok" THEN st
    ELSE IF signer # account THEN [st EXCEPT !.err = "AuthFailed"]
    ELSE st

(***************************************************************************)
(* Fungible ledger                                                         *)
(***************************************************************************)
NoAllowance == [present |-> FALSE, amount |-> 0, live_until_ledger |-> 0]

\* no entry under CAP_KEY
CapNotSet == 0 - 1

FState == [err |-> "ok", total_supply |-> fTotalSupply, balance |-> fBalance,
           allowance |-> fAllowance, cap |-> fCap]

total_supply(st) == st.total_supply

balance(st, account) == st.balance[account]

allowance_data(st, owner, spender) ==
    LET entry == st.allowance[<<owner, spender>>] IN
    IF entry.present
    THEN [amount |-> entry.amount, live_until_ledger |-> entry.live_until_ledger]
    ELSE [amount |-> 0, live_until_ledger |-> 0]

\* allowance without the explicit expiry check
allowance_noexpiry(st, owner, spender) == allowance_data(st, owner, spender).amount

allowance(st, owner, spender) ==
    LET a == allowance_data(st, owner, spender) IN
    IF a.live_until_ledger < ledger THEN 0 ELSE a.amount

set_allowance(st, owner, spender, amount, live_until_ledger) ==
    IF st.err # "ok" THEN st
    ELSE IF amount < 0 THEN [st EXCEPT !.err = "LessThanZero"]
    ELSE IF \/ live_until_ledger > max_live_until_ledger
            \/ (amount > 0 /\ live_until_ledger < ledger)
         THEN [st EXCEPT !.err = "InvalidLiveUntilLedger"]
    ELSE [st EXCEPT !.allowance[<<owner, spender>>] =
              [present |-> TRUE, amount |-> amount,
               live_until_ledger |-> live_until_ledger]]

\* set_allowance asks the temporary tier for no lifetime extension
NoExtension == 0 - 1

\* live_for with one ledger added, as the reference implementation computes it
live_for_plus_one(live_until_ledger) == live_until_ledger - ledger + 1

live_for(live_until_ledger) == live_until_ledger - ledger

\* the lifetime set_allowance passes to extend_ttl for the entry it wrote
extend_ttl(st, owner, spender, amount, live_until_ledger) ==
    IF set_allowance(st, owner, spender, amount, live_until_ledger).err # "ok"
    THEN NoExtension
    ELSE IF amount > 0 THEN live_for(live_until_ledger) ELSE NoExtension

approve(st, signer, owner, spender, amount, live_until_ledger) ==
    set_allowance(require_auth(st, signer, owner), owner, spender, amount,
                  live_until_ledger)

spend_allowance(st, owner, spender, amount) ==
    IF st.err # "ok" THEN st
    ELSE IF amount < 0 THEN [st EXCEPT !.err = "LessThanZero"]
    ELSE LET a == allowance_data(st, owner, spender) IN
         IF a.amount < amount THEN [st EXCEPT !.err = "InsufficientAllowance"]
         ELSE IF amount > 0
              THEN set_allowance(st, owner, spender, a.amount - amount,
                                 a.live_until_ledger)
              ELSE st

\* update in which a burn leaves the total supply as it was
update_burn_keeps_supply(st, from, to, amount) ==
    IF st.err # "ok" THEN st
    ELSE IF amount < 0 THEN [st EXCEPT !.err = "LessThanZero"]
    ELSE
      LET s1 ==
            IF from # None
            THEN IF st.balance[from] < amount
                 THEN [st EXCEPT !.err = "InsufficientBalance"]
                 ELSE [st EXCEPT !.balance[from] = @ - amount]
            ELSE IF st.total_supply + amount > MaxI128
                 THEN [st EXCEPT !.err = "MathOverflow"]
                 ELSE [st EXCEPT !.total_supply = @ + amount]
      IN
      IF s1.err # "ok" THEN s1
      ELSE IF to # None
           THEN [s1 EXCEPT !.balance[to] = @ + amount]
           ELSE s1

update(st, from, to, amount) ==
    IF st.err # "ok" THEN st
    ELSE IF amount < 0 THEN [st EXCEPT !.err = "LessThanZero"]
    ELSE
      LET s1 ==
            IF from # None
            THEN IF balance(st, from) < amount
                 THEN [st EXCEPT !.err = "InsufficientBalance"]
                 ELSE [st EXCEPT !.balance[from] = @ - amount]
            ELSE IF total_supply(st) + amount > MaxI128
                 THEN [st EXCEPT !.err = "MathOverflow"]
                 ELSE [st EXCEPT !.total_supply = @ + amount]
      IN
      IF s1.err # "ok" THEN s1
      ELSE IF to # None
           THEN IF balance(s1, to) + amount > MaxI128
                THEN [s1 EXCEPT !.err = "ArithmeticOverflow"]
                ELSE [s1 EXCEPT !.balance[to] = @ + amount]
           ELSE IF total_supply(s1) - amount < 0 - MaxI128 - 1
                THEN [s1 EXCEPT !.err = "ArithmeticOverflow"]
                ELSE [s1 EXCEPT !.total_supply = @ - amount]

\* transfer that moves the amount without the checks of update
transfer_unchecked(st, signer, from, to, amount) ==
    LET s1 == require_auth(st, signer, from) IN
    IF s1.err # "ok" THEN s1
    ELSE LET s2 == [s1 EXCEPT !.balance[from] = @ - amount] IN
         [s2 EXCEPT !.balance[to] = @ + amount]

transfer(st, signer, from, to, amount) ==
    update(require_auth(st, signer, from), from, to, amount)

transfer_from(st, signer, spender, from, to, amount) ==
    update(spend_allowance(require_auth(st, signer, spender), from, spender, amount),
           from, to, amount)

\* mint that credits the receiver and leaves the total supply as it was
mint_keeps_supply(st, to, amount) ==
    LET s1 == update(st, None, to, amount) IN
    IF s1.err # "ok" THEN s1 ELSE [s1 EXCEPT !.total_supply = st.total_supply]

mint(st, to, amount) == update(st, None, to, amount)

(***************************************************************************)
(* Fungible ledger: the capped extension                                   *)
(***************************************************************************)
set_cap(st, cap) ==
    IF st.err # "ok" THEN st
    ELSE IF cap < 0 THEN [st EXCEPT !.err = "InvalidCap"]
    ELSE [st EXCEPT !.cap = cap]

\* amount + total_supply is a plain i128 addition: when it passes i128::MAX
\* the build either panics (overflow_checks) or wraps around
check_cap(st, amount, overflow_checks) ==
    IF st.err # "ok" THEN st
    ELSE IF st.cap = CapNotSet THEN [st EXCEPT !.err = "CapNotSet"]
    ELSE LET sum == amount + total_supply(st) IN
         IF sum > MaxI128 /\ overflow_checks
         THEN [st EXCEPT !.err = "ArithmeticOverflow"]
         ELSE LET wrapped == IF sum > MaxI128 THEN sum - 2 * (MaxI128 + 1) ELSE sum IN
              IF st.cap < wrapped THEN [st EXCEPT !.err = "ExceededCap"]
              ELSE st

(***************************************************************************)
(* Non-fungible ledger: sequential ids and the Base contract type          *)
(***************************************************************************)
NoApproval == [present |-> FALSE, approved |-> None, live_until_ledger |-> 0]

NoOperator == [present |-> FALSE, live_until_ledger |-> 0]

\* a storage key of the enumeration maps that holds no entry
NoEntry == 0 - 1

NState == [err |-> "ok", ret |-> 0, owner |-> nOwner, balance |-> nBalance,
           approval |-> nApproval, operators |-> nOperators, counter |-> counter,
           burned |-> cBurned, total_supply |-> eTotalSupply,
           owner_tokens |-> OwnerTokens, owner_tokens_index |-> OwnerTokensIndex,
           global_tokens |-> GlobalTokens, global_tokens_index |-> GlobalTokensIndex]

\* counter read that always finds the storage default
next_token_id_unset(st) == 0

next_token_id(st) == st.counter

\* counter that advances by one whatever the amount
increment_token_id_by_one(st, amount) ==
    IF st.err # "ok" THEN st
    ELSE IF next_token_id(st) + amount > MaxU32
         THEN [st EXCEPT !.err = "MathOverflow"]
         ELSE [st EXCEPT !.counter = @ + 1, !.ret = next_token_id(st)]

increment_token_id(st, amount) ==
    IF st.err # "ok" THEN st
    ELSE IF next_token_id(st) + amount > MaxU32
         THEN [st EXCEPT !.err = "MathOverflow"]
         ELSE [st EXCEPT !.counter = @ + amount, !.ret = next_token_id(st)]

Base_balance(st, account) == st.balance[account]

increase_balance(st, to, amount) ==
    IF st.err # "ok" THEN st
    ELSE IF Base_balance(st, to) + amount > MaxU32
         THEN [st EXCEPT !.err = "MathOverflow"]
         ELSE [st EXCEPT !.balance[to] = @ + amount]

decrease_balance(st, from, amount) ==
    IF st.err # "ok" THEN st
    ELSE IF Base_balance(st, from) - amount < 0
         THEN [st EXCEPT !.err = "MathOverflow"]
         ELSE [st EXCEPT !.balance[from] = @ - amount]

\* the owner record of token_id, None for NonExistentToken
Base_owner_of(st, token_id) == st.owner[token_id]

get_approved(st, token_id) ==
    LET slot == st.approval[token_id] IN
    IF slot.present /\ slot.live_until_ledger >= ledger THEN slot.approved ELSE None

is_approved_for_all(st, owner, operator) ==
    LET entry == st.operators[<<owner, operator>>] IN
    entry.present /\ entry.live_until_ledger >= ledger

check_spender_approval(st, spender, owner, token_id) ==
    IF st.err # "ok" THEN st
    ELSE IF /\ spender # owner
            /\ get_approved(st, token_id) # spender
            /\ ~is_approved_for_all(st, owner, spender)
         THEN [st EXCEPT !.err = "InsufficientApproval"]
         ELSE st

\* approve_for_owner that accepts every approver
approve_for_owner_any_approver(st, owner, approver, approved, token_id, live_until_ledger) ==
    IF st.err # "ok" THEN st
    ELSE IF live_until_ledger = 0
         THEN [st EXCEPT !.approval[token_id] = NoApproval]
    ELSE IF live_until_ledger < ledger
         THEN [st EXCEPT !.err = "InvalidLiveUntilLedger"]
    ELSE [st EXCEPT !.approval[token_id] =
              [present |-> TRUE, approved |-> approved,
               live_until_ledger |-> live_until_ledger]]

approve_for_owner(st, owner, approver, approved, token_id, live_until_ledger) ==
    IF st.err # "ok" THEN st
    ELSE IF approver # owner /\ ~is_approved_for_all(st, owner, approver)
         THEN [st EXCEPT !.err = "InvalidApprover"]
    ELSE IF live_until_ledger = 0
         THEN [st EXCEPT !.approval[token_id] = NoApproval]
    ELSE IF live_until_ledger < ledger
         THEN [st EXCEPT !.err = "InvalidLiveUntilLedger"]
    ELSE [st EXCEPT !.approval[token_id] =
              [present |-> TRUE, approved |-> approved,
               live_until_ledger |-> live_until_ledger]]

Base_approve(st, signer, approver, approved, token_id, live_until_ledger) ==
    LET s1 == require_auth(st, signer, approver) IN
    IF s1.err # "ok" THEN s1
    ELSE IF Base_owner_of(s1, token_id) = None
         THEN [s1 EXCEPT !.err = "NonExistentToken"]
         ELSE approve_for_owner(s1, Base_owner_of(s1, token_id), approver, approved,
                                token_id, live_until_ledger)

\* approve_for_all whose revocation drops every operator of the owner
approve_for_all_revokes_all(st, signer, owner, operator, live_until_ledger) ==
    LET s1 == require_auth(st, signer, owner) IN
    IF s1.err # "ok" THEN s1
    ELSE IF live_until_ledger = 0
         THEN [s1 EXCEPT !.operators =
                  [p \in Addr \X Addr |-> IF p[1] = owner THEN NoOperator ELSE @[p]]]
    ELSE IF live_until_ledger < ledger
         THEN [s1 EXCEPT !.err = "InvalidLiveUntilLedger"]
    ELSE [s1 EXCEPT !.operators[<<owner, operator>>] =
              [present |-> TRUE, live_until_ledger |-> live_until_ledger]]

approve_for_all(st, signer, owner, operator, live_until_ledger) ==
    LET s1 == require_auth(st, signer, owner) IN
    IF s1.err # "ok" THEN s1
    ELSE IF live_until_ledger = 0
         THEN [s1 EXCEPT !.operators[<<owner, operator>>] = NoOperator]
    ELSE IF live_until_ledger < ledger
         THEN [s1 EXCEPT !.err = "InvalidLiveUntilLedger"]
    ELSE [s1 EXCEPT !.operators[<<owner, operator>>] =
              [present |-> TRUE, live_until_ledger |-> live_until_ledger]]

\* update that does not take the token off the sender's balance
Base_update_keeps_balance(st, from, to, token_id) ==
    IF st.err # "ok" THEN st
    ELSE IF from # None /\ st.owner[token_id] = None
         THEN [st EXCEPT !.err = "NonExistentToken"]
    ELSE IF from # None /\ st.owner[token_id] # from
         THEN [st EXCEPT !.err = "IncorrectOwner"]
    ELSE IF to # None
         THEN [increase_balance(st, to, 1) EXCEPT !.owner[token_id] = to,
                                                  !.approval[token_id] = NoApproval]
         ELSE [st EXCEPT !.owner[token_id] = None, !.approval[token_id] = NoApproval]

Base_update(st, from, to, token_id) ==
    IF st.err # "ok" THEN st
    ELSE
      LET s1 ==
            IF from # None
            THEN IF Base_owner_of(st, token_id) = None
                 THEN [st EXCEPT !.err = "NonExistentToken"]
                 ELSE IF Base_owner_of(st, token_id) # from
                 THEN [st EXCEPT !.err = "IncorrectOwner"]
                 ELSE [decrease_balance(st, from, 1) EXCEPT
                          !.approval[token_id] = NoApproval]
            ELSE st
      IN
      IF s1.err # "ok" THEN s1
      ELSE IF to # None
           THEN LET s2 == increase_balance(s1, to, 1) IN
                IF s2.err # "ok" THEN s2
                ELSE [s2 EXCEPT !.owner[token_id] = to]
           ELSE [s1 EXCEPT !.owner[token_id] = None]

Base_transfer(st, signer, from, to, token_id) ==
    Base_update(require_auth(st, signer, from), from, to, token_id)

Base_transfer_from(st, signer, spender, from, to, token_id) ==
    Base_update(check_spender_approval(require_auth(st, signer, spender),
                                       spender, from, token_id),
                from, to, token_id)

\* burn that decreases the balance but leaves the owner record in place
Base_burn_keeps_owner(st, signer, from, token_id) ==
    LET s1 == Base_update(require_auth(st, signer, from), from, None, token_id) IN
    IF s1.err # "ok" THEN s1 ELSE [s1 EXCEPT !.owner[token_id] = from]

Base_burn(st, signer, from, token_id) ==
    Base_update(require_auth(st, signer, from), from, None, token_id)

\* burn_from that skips the approval gate
Base_burn_from_ungated(st, signer, spender, from, token_id) ==
    Base_update(require_auth(st, signer, spender), from, None, token_id)

Base_burn_from(st, signer, spender, from, token_id) ==
    Base_update(check_spender_approval(require_auth(st, signer, spender),
                                       spender, from, token_id),
                from, None, token_id)

Base_sequential_mint(st, to) ==
    LET s1 == increment_token_id(st, 1) IN
    IF s1.err # "ok" THEN s1
    ELSE Base_update(s1, None, to, s1.ret)

(***************************************************************************)
(* Non-fungible ledger: the Consecutive contract type                      *)
(***************************************************************************)
\* the nearest owner record at an index <= token_id, None if there is none
RECURSIVE FindOwnerDown(_, _)
FindOwnerDown(st, token_id) ==
    IF st.owner[token_id] # None THEN st.owner[token_id]
    ELSE IF token_id = 0 THEN None
    ELSE FindOwnerDown(st, token_id - 1)

\* owner_of that does not consult the BurnedToken marker
Consecutive_owner_of_ignores_marker(st, token_id) ==
    IF token_id >= next_token_id(st) THEN None
    ELSE FindOwnerDown(st, token_id)

\* the owner of token_id, None for NonExistentToken
Consecutive_owner_of(st, token_id) ==
    IF token_id >= next_token_id(st) \/ st.burned[token_id] THEN None
    ELSE FindOwnerDown(st, token_id)

\* batch_mint that credits the receiver with one token whatever the amount
Consecutive_batch_mint_single_credit(st, to, amount, overflow_checks) ==
    LET s1 == increment_token_id(st, amount) IN
    IF s1.err # "ok" THEN s1
    ELSE LET first_id == s1.ret
             s2 == increase_balance([s1 EXCEPT !.owner[first_id] = to], to, 1)
         IN IF s2.err # "ok" THEN s2
            ELSE IF first_id + amount - 1 < 0
                 THEN IF overflow_checks
                      THEN [s2 EXCEPT !.err = "ArithmeticOverflow"]
                      ELSE [s2 EXCEPT !.ret = MaxU32]
                 ELSE [s2 EXCEPT !.ret = first_id + amount - 1]

Consecutive_batch_mint(st, to, amount, overflow_checks) ==
    LET s1 == increment_token_id(st, amount) IN
    IF s1.err # "ok" THEN s1
    ELSE LET first_id == s1.ret
             s2 == increase_balance([s1 EXCEPT !.owner[first_id] = to], to, amount)
         IN IF s2.err # "ok" THEN s2
            ELSE IF first_id + amount - 1 < 0
                 THEN IF overflow_checks
                      THEN [s2 EXCEPT !.err = "ArithmeticOverflow"]
                      ELSE [s2 EXCEPT !.ret = MaxU32]
                 ELSE [s2 EXCEPT !.ret = first_id + amount - 1]

\* set_owner_for that never writes
Consecutive_set_owner_for_never(st, to, token_id) == st

\* set_owner_for that writes whatever the id's state
Consecutive_set_owner_for_unguarded(st, to, token_id) ==
    [st EXCEPT !.owner[token_id] = to]

Consecutive_set_owner_for(st, to, token_id) ==
    LET max == next_token_id(st)
        has_owner == st.owner[token_id] # None
        is_burned == st.burned[token_id]
    IN IF token_id < max /\ ~has_owner /\ ~is_burned
       THEN [st EXCEPT !.owner[token_id] = to]
       ELSE st

\* update without the repair of the successor's owner record
Consecutive_update_no_repair(st, from, to, token_id) ==
    IF st.err # "ok" THEN st
    ELSE IF from # None /\ Consecutive_owner_of(st, token_id) = None
         THEN [st EXCEPT !.err = "NonExistentToken"]
    ELSE IF from # None /\ Consecutive_owner_of(st, token_id) # from
         THEN [st EXCEPT !.err = "IncorrectOwner"]
    ELSE LET s1 == IF from # None
                   THEN [decrease_balance(st, from, 1) EXCEPT
                            !.approval[token_id] = NoApproval]
                   ELSE st
         IN IF s1.err # "ok" THEN s1
            ELSE IF to # None
                 THEN [increase_balance(s1, to, 1) EXCEPT !.owner[token_id] = to]
                 ELSE [s1 EXCEPT !.owner[token_id] = None, !.burned[token_id] = TRUE]

Consecutive_update(st, from, to, token_id) ==
    IF st.err # "ok" THEN st
    ELSE
      LET s1 ==
            IF from # None
            THEN IF Consecutive_owner_of(st, token_id) = None
                 THEN [st EXCEPT !.err = "NonExistentToken"]
                 ELSE IF Consecutive_owner_of(st, token_id) # from
                 THEN [st EXCEPT !.err = "IncorrectOwner"]
                 ELSE LET s0 == decrease_balance(st, from, 1) IN
                      IF s0.err # "ok" THEN s0
                      ELSE Consecutive_set_owner_for(
                               [s0 EXCEPT !.approval[token_id] = NoApproval],
                               from, token_id + 1)
            ELSE st
      IN
      IF s1.err # "ok" THEN s1
      ELSE IF to # None
           THEN LET s2 == increase_balance(s1, to, 1) IN
                IF s2.err # "ok" THEN s2
                ELSE [s2 EXCEPT !.owner[token_id] = to]
           ELSE [s1 EXCEPT !.owner[token_id] = None, !.burned[token_id] = TRUE]

Consecutive_burn(st, signer, from, token_id) ==
    Consecutive_update(require_auth(st, signer, from), from, None, token_id)

\* burn_from that lets every spender through
Consecutive_burn_from_ungated(st, signer, spender, from, token_id) ==
    Consecutive_update(require_auth(st, signer, spender), from, None, token_id)

Consecutive_burn_from(st, signer, spender, from, token_id) ==
    Consecutive_update(check_spender_approval(require_auth(st, signer, spender),
                                              spender, from, token_id),
                       from, None, token_id)

\* transfer that puts the approval slot back as it found it
Consecutive_transfer_keeps_approval(st, signer, from, to, token_id) ==
    LET s1 == Consecutive_update(require_auth(st, signer, from), from, to, token_id) IN
    IF s1.err # "ok" THEN s1 ELSE [s1 EXCEPT !.approval = st.approval]

Consecutive_transfer(st, signer, from, to, token_id) ==
    Consecutive_update(require_auth(st, signer, from), from, to, token_id)

\* transfer_from that moves the token from whoever owns it
Consecutive_transfer_from_any_owner(st, signer, spender, from, to, token_id) ==
    Consecutive_update(check_spender_approval(require_auth(st, signer, spender),
                                              spender, from, token_id),
                       Consecutive_owner_of(st, token_id), to, token_id)

Consecutive_transfer_from(st, signer, spender, from, to, token_id) ==
    Consecutive_update(check_spender_approval(require_auth(st, signer, spender),
                                              spender, from, token_id),
                       from, to, token_id)

Consecutive_approve(st, signer, approver, approved, token_id, live_until_ledger) ==
    LET s1 == require_auth(st, signer, approver) IN
    IF s1.err # "ok" THEN s1
    ELSE IF Consecutive_owner_of(s1, token_id) = None
         THEN [s1 EXCEPT !.err = "NonExistentToken"]
         ELSE approve_for_owner(s1, Consecutive_owner_of(s1, token_id), approver,
                                approved, token_id, live_until_ledger)

(***************************************************************************)
(* Non-fungible ledger: the Enumerable contract type                       *)
(***************************************************************************)
Enumerable_total_supply(st) == st.total_supply

get_owner_token_id(st, owner, index) ==
    IF st.err # "ok" THEN st
    ELSE IF st.owner_tokens[<<owner, index>>] = NoEntry
         THEN [st EXCEPT !.err = "TokenNotFoundInOwnerList"]
         ELSE [st EXCEPT !.ret = st.owner_tokens[<<owner, index>>]]

get_token_id(st, index) ==
    IF st.err # "ok" THEN st
    ELSE IF st.global_tokens[index] = NoEntry
         THEN [st EXCEPT !.err = "TokenNotFoundInGlobalList"]
         ELSE [st EXCEPT !.ret = st.global_tokens[index]]

\* returns the total supply before the increment
increment_total_supply(st) ==
    IF st.err # "ok" THEN st
    ELSE IF Enumerable_total_supply(st) + 1 > MaxU32
         THEN [st EXCEPT !.err = "TokenIDsAreDepleted"]
         ELSE [st EXCEPT !.total_supply = @ + 1, !.ret = Enumerable_total_supply(st)]

\* returns the total supply after the decrement
decrement_total_supply(st) ==
    IF st.err # "ok" THEN st
    ELSE IF Enumerable_total_supply(st) - 1 < 0
         THEN [st EXCEPT !.err = "MathOverflow"]
         ELSE [st EXCEPT !.total_supply = @ - 1, !.ret = Enumerable_total_supply(st) - 1]

add_to_owner_enumeration(st, owner, token_id) ==
    IF st.err # "ok" THEN st
    ELSE IF Base_balance(st, owner) - 1 < 0
         THEN [st EXCEPT !.err = "MathOverflow"]
         ELSE LET owner_balance == Base_balance(st, owner) - 1 IN
              [st EXCEPT !.owner_tokens[<<owner, owner_balance>>] = token_id,
                         !.owner_tokens_index[token_id] = owner_balance]

\* swap-remove that leaves the reverse pointer of the moved token as it was
remove_from_owner_enumeration_stale_pointer(st, owner, to_be_removed_id) ==
    IF st.err # "ok" THEN st
    ELSE IF st.owner_tokens_index[to_be_removed_id] = NoEntry
         THEN [st EXCEPT !.err = "TokenNotFoundInOwnerList"]
    ELSE
      LET to_be_removed_index == st.owner_tokens_index[to_be_removed_id]
          last_token_index == Base_balance(st, owner)
          s1 == IF to_be_removed_index # last_token_index
                THEN LET g == get_owner_token_id(st, owner, last_token_index) IN
                     IF g.err # "ok" THEN g
                     ELSE [g EXCEPT
                             !.owner_tokens[<<owner, to_be_removed_index>>] = g.ret]
                ELSE st
      IN IF s1.err # "ok" THEN s1
         ELSE [s1 EXCEPT !.owner_tokens[<<owner, last_token_index>>] = NoEntry,
                         !.owner_tokens_index[to_be_removed_id] = NoEntry]

remove_from_owner_enumeration(st, owner, to_be_removed_id) ==
    IF st.err # "ok" THEN st
    ELSE IF st.owner_tokens_index[to_be_removed_id] = NoEntry
         THEN [st EXCEPT !.err = "TokenNotFoundInOwnerList"]
    ELSE
      LET to_be_removed_index == st.owner_tokens_index[to_be_removed_id]
          last_token_index == Base_balance(st, owner)
          s1 == IF to_be_removed_index # last_token_index
                THEN LET g == get_owner_token_id(st, owner, last_token_index) IN
                     IF g.err # "ok" THEN g
                     ELSE [g EXCEPT
                             !.owner_tokens[<<owner, to_be_removed_index>>] = g.ret,
                             !.owner_tokens_index[g.ret] = to_be_removed_index]
                ELSE st
      IN IF s1.err # "ok" THEN s1
         ELSE [s1 EXCEPT !.owner_tokens[<<owner, last_token_index>>] = NoEntry,
                         !.owner_tokens_index[to_be_removed_id] = NoEntry]

add_to_global_enumeration(st, token_id, index) ==
    IF st.err # "ok" THEN st
    ELSE [st EXCEPT !.global_tokens[index] = token_id,
                    !.global_tokens_index[token_id] = index]

\* removal that clears the burned token's own slot and moves nothing
remove_from_global_enumeration_no_swap(st, to_be_removed_id, last_token_index) ==
    IF st.err # "ok" THEN st
    ELSE IF st.global_tokens_index[to_be_removed_id] = NoEntry
         THEN [st EXCEPT !.err = "TokenNotFoundInGlobalList"]
    ELSE
      LET to_be_removed_index == st.global_tokens_index[to_be_removed_id] IN
      [st EXCEPT !.global_tokens[to_be_removed_index] = NoEntry,
                 !.global_tokens_index[to_be_removed_id] = NoEntry]

remove_from_global_enumeration(st, to_be_removed_id, last_token_index) ==
    IF st.err # "ok" THEN st
    ELSE IF st.global_tokens_index[to_be_removed_id] = NoEntry
         THEN [st EXCEPT !.err = "TokenNotFoundInGlobalList"]
    ELSE
      LET to_be_removed_index == st.global_tokens_index[to_be_removed_id]
          g == get_token_id(st, last_token_index)
      IN IF g.err # "ok" THEN g
         ELSE LET s1 == [g EXCEPT !.global_tokens[to_be_removed_index] = g.ret,
                                  !.global_tokens_index[g.ret] = to_be_removed_index]
              IN [s1 EXCEPT !.global_tokens[last_token_index] = NoEntry,
                            !.global_tokens_index[to_be_removed_id] = NoEntry]

Enumerable_sequential_mint(st, to) ==
    LET s1 == Base_sequential_mint(st, to) IN
    IF s1.err # "ok" THEN s1
    ELSE LET token_id == s1.ret
             s2 == increment_total_supply(add_to_owner_enumeration(s1, to, token_id))
         IN IF s2.err # "ok" THEN s2 ELSE [s2 EXCEPT !.ret = token_id]

Enumerable_non_sequential_mint(st, to, token_id) ==
    LET s1 == increment_total_supply(
                  add_to_owner_enumeration(Base_update(st, None, to, token_id),
                                           to, token_id))
    IN add_to_global_enumeration(s1, token_id, s1.ret)

Enumerable_sequential_burn(st, signer, from, token_id) ==
    decrement_total_supply(
        remove_from_owner_enumeration(Base_burn(st, signer, from, token_id),
                                      from, token_id))

Enumerable_non_sequential_burn(st, signer, from, token_id) ==
    LET s1 == decrement_total_supply(
                  remove_from_owner_enumeration(Base_burn(st, signer, from, token_id),
                                                from, token_id))
    IN remove_from_global_enumeration(s1, token_id, s1.ret)

Enumerable_sequential_burn_from(st, signer, spender, from, token_id) ==
    decrement_total_supply(
        remove_from_owner_enumeration(
            Base_burn_from(st, signer, spender, from, token_id), from, token_id))

Enumerable_non_sequential_burn_from(st, signer, spender, from, token_id) ==
    LET s1 == decrement_total_supply(
                  remove_from_owner_enumeration(
                      Base_burn_from(st, signer, spender, from, token_id),
                      from, token_id))
    IN remove_from_global_enumeration(s1, token_id, s1.ret)

Enumerable_transfer(st, signer, from, to, token_id) ==
    add_to_owner_enumeration(
        remove_from_owner_enumeration(Base_transfer(st, signer, from, to, token_id),
                                      from, token_id),
        to, token_id)

Enumerable_transfer_from(st, signer, spender, from, to, token_id) ==
    add_to_owner_enumeration(
        remove_from_owner_enumeration(
            Base_transfer_from(st, signer, spender, from, to, token_id),
            from, token_id),
        to, token_id)

\* a host that keeps the allowance writes of an invocation that panicked
FCommit_keeps_allowance(st, rec) ==
    /\ last' = [rec EXCEPT !.res = st.err]
    /\ fAllowance' = st.allowance
    /\ IF st.err = "ok"
       THEN /\ fTotalSupply' = st.total_supply
            /\ fBalance' = st.balance
            /\ fCap' = st.cap
       ELSE UNCHANGED <<fTotalSupply, fBalance, fCap>>

\* the host commits the invocation's writes, or none of them when it panicked
FCommit(st, rec) ==
    /\ last' = [rec EXCEPT !.res = st.err]
    /\ IF st.err = "ok"
       THEN /\ fTotalSupply' = st.total_supply
            /\ fBalance' = st.balance
            /\ fAllowance' = st.allowance
            /\ fCap' = st.cap
       ELSE UNCHANGED <<fTotalSupply, fBalance, fAllowance, fCap>>

Rec(op) == [op |-> op, res |-> "ok", from |-> None, to |-> None, id |-> 0]

Init ==
    /\ ledger = 0
    /\ fTotalSupply = 0
    /\ fBalance = [a \in Addr |-> 0]
    /\ fAllowance = [p \in Addr \X Addr |-> NoAllowance]
    /\ fCap = CapNotSet
    /\ fApproved = [p \in Addr \X Addr |-> {}]
    /\ nOwner = [t \in TokenIds |-> None]
    /\ nBalance = [a \in Addr |-> 0]
    /\ nApproval = [t \in TokenIds |-> NoApproval]
    /\ nOperators = [p \in Addr \X Addr |-> NoOperator]
    /\ counter = 0
    /\ cBurned = [t \in TokenIds |-> FALSE]
    /\ hBurned = {}
    /\ hMintedOver = {}
    /\ eTotalSupply = 0
    /\ OwnerTokens = [k \in Addr \X TokenIds |-> NoEntry]
    /\ OwnerTokensIndex = [t \in TokenIds |-> NoEntry]
    /\ GlobalTokens = [i \in TokenIds |-> NoEntry]
    /\ GlobalTokensIndex = [t \in TokenIds |-> NoEntry]
    /\ upgradeState = Unset
    /\ wasm = 0
    /\ hUpgraded = 0
    /\ hMigrated = 0
    /\ hRolledBack = 0
    /\ last = Rec("init")

Mint(to, amount) ==
    /\ FCommit(mint(FState, to, amount), Rec("mint"))
    /\ UNCHANGED <<uvars, ledger, fApproved, nvars>>

Update(from, to, amount) ==
    /\ FCommit(update(FState, from, to, amount), Rec("update"))
    /\ UNCHANGED <<uvars, ledger, fApproved, nvars>>

Transfer(signer, from, to, amount) ==
    /\ FCommit(transfer(FState, signer, from, to, amount), Rec("transfer"))
    /\ UNCHANGED <<uvars, ledger, fApproved, nvars>>

TransferFrom(signer, spender, from, to, amount) ==
    /\ FCommit(transfer_from(FState, signer, spender, from, to, amount),
               Rec("transfer_from"))
    /\ UNCHANGED <<uvars, ledger, fApproved, nvars>>

Approve(signer, owner, spender, amount, live_until_ledger) ==
    LET st == approve(FState, signer, owner, spender, amount, live_until_ledger) IN
    /\ FCommit(st, Rec("approve"))
    /\ fApproved' = IF st.err = "ok"
                    THEN [fApproved EXCEPT ![<<owner, spender>>] =
                             IF amount > 0 THEN {live_until_ledger} ELSE {}]
                    ELSE fApproved
    /\ UNCHANGED <<uvars, ledger, nvars>>

SpendAllowance(owner, spender, amount) ==
    /\ FCommit(spend_allowance(FState, owner, spender, amount),
               Rec("spend_allowance"))
    /\ UNCHANGED <<uvars, ledger, fApproved, nvars>>

\* the temporary tier drops an entry whose lifetime has elapsed; an entry
\* written with amount 0 was given no lifetime extension
EvictAllowance(owner, spender) ==
    LET entry == fAllowance[<<owner, spender>>] IN
    /\ entry.present
    /\ entry.amount = 0 \/ entry.live_until_ledger < ledger
    /\ fAllowance' = [fAllowance EXCEPT ![<<owner, spender>>] = NoAllowance]
    /\ last' = Rec("evict")
    /\ UNCHANGED <<uvars, ledger, fTotalSupply, fBalance, fCap, fApproved, nvars>>

AdvanceLedger ==
    /\ ledger < MaxLedger
    /\ ledger' = ledger + 1
    /\ last' = Rec("advance")
    /\ UNCHANGED <<uvars, fvars, nvars>>

FungibleNext ==
    \/ \E to \in Addr, amount \in Amounts : Mint(to, amount)
    \/ \E from \in AddrOpt, to \in AddrOpt, amount \in Amounts : Update(from, to, amount)
    \/ \E signer \in Addr, from \in Addr, to \in Addr, amount \in Amounts :
          Transfer(signer, from, to, amount)
    \/ \E signer \in Addr, spender \in Addr, from \in Addr, to \in Addr, amount \in Amounts :
          TransferFrom(signer, spender, from, to, amount)
    \/ \E signer \in Addr, owner \in Owners, spender \in Spenders, amount \in Amounts,
          live \in LiveInputs : Approve(signer, owner, spender, amount, live)
    \/ \E owner \in Owners, spender \in Spenders, amount \in Amounts :
          SpendAllowance(owner, spender, amount)
    \/ \E owner \in Addr, spender \in Addr : EvictAllowance(owner, spender)
    \/ AdvanceLedger

FungibleSpec == Init /\ [][FungibleNext]_vars

SetCap(cap) ==
    /\ FCommit(set_cap(FState, cap), Rec("set_cap"))
    /\ UNCHANGED <<uvars, ledger, fApproved, nvars>>

\* one invocation: check_cap(amount) followed by mint(to, amount)
CappedMint(to, amount, overflow_checks) ==
    /\ FCommit(mint(check_cap(FState, amount, overflow_checks), to, amount),
               Rec("capped_mint"))
    /\ UNCHANGED <<uvars, ledger, fApproved, nvars>>

\* a token whose supply grows only through CappedMint: transfers and burns
\* are updates with a sender
CappedNext ==
    \/ \E cap \in (0 - 1)..MaxI128 : SetCap(cap)
    \/ \E to \in Addr, amount \in Amounts, overflow_checks \in BOOLEAN :
          CappedMint(to, amount, overflow_checks)
    \/ \E signer \in Addr, from \in Addr, to \in Addr, amount \in Amounts :
          Transfer(signer, from, to, amount)
    \/ \E from \in Addr, to \in AddrOpt, amount \in Amounts : Update(from, to, amount)

CappedSpec == Init /\ [][CappedNext]_vars

(***************************************************************************)
(* Non-fungible ledger: invocations.  Each invocation is made with the     *)
(* authorisation its require_auth asks for.                                *)
(***************************************************************************)
MintOps == {"Base::sequential_mint", "Enumerable::sequential_mint",
            "Enumerable::non_sequential_mint"}

NRec(op, from, to, id) == [op |-> op, res |-> "ok", from |-> from, to |-> to, id |-> id]

\* the host commits the invocation's writes, or none of them when it panicked
NCommit(st, rec) ==
    /\ last' = IF st.err = "ok" THEN rec ELSE [Rec(rec.op) EXCEPT !.res = st.err]
    /\ hMintedOver' = IF /\ st.err = "ok"
                         /\ rec.op \in MintOps
                         /\ nOwner[rec.id] # None
                      THEN hMintedOver \cup {rec.op}
                      ELSE hMintedOver
    /\ IF st.err = "ok"
       THEN /\ nOwner' = st.owner
            /\ nBalance' = st.balance
            /\ nApproval' = st.approval
            /\ nOperators' = st.operators
            /\ counter' = st.counter
            /\ cBurned' = st.burned
            /\ eTotalSupply' = st.total_supply
            /\ OwnerTokens' = st.owner_tokens
            /\ OwnerTokensIndex' = st.owner_tokens_index
            /\ GlobalTokens' = st.global_tokens
            /\ GlobalTokensIndex' = st.global_tokens_index
       ELSE UNCHANGED <<nOwner, nBalance, nApproval, nOperators, counter, cBurned, evars>>

NBurnt(st, token_id) ==
    hBurned' = IF st.err = "ok" THEN hBurned \cup {token_id} ELSE hBurned

NftApprove(approver, approved, token_id, live_until_ledger) ==
    /\ NCommit(Base_approve(NState, approver, approver, approved, token_id,
                            live_until_ledger),
               NRec("Base::approve", approver, approved, token_id))
    /\ UNCHANGED <<uvars, ledger, fvars, hBurned>>

NftApproveForAll(owner, operator, live_until_ledger) ==
    /\ NCommit(approve_for_all(NState, owner, owner, operator, live_until_ledger),
               NRec("Base::approve_for_all", owner, operator, 0))
    /\ UNCHANGED <<uvars, ledger, fvars, hBurned>>

\* the temporary tier drops an approval entry whose lifetime has elapsed
EvictApproval(token_id) ==
    /\ nApproval[token_id].present
    /\ nApproval[token_id].live_until_ledger < ledger
    /\ nApproval' = [nApproval EXCEPT ![token_id] = NoApproval]
    /\ last' = Rec("evict")
    /\ UNCHANGED <<uvars, ledger, fvars, nOwner, nBalance, nOperators, counter, cBurned, hBurned,
                   hMintedOver, evars>>

BaseSequentialMint(to) ==
    LET st == Base_sequential_mint(NState, to) IN
    /\ NCommit(st, NRec("Base::sequential_mint", None, to, st.ret))
    /\ UNCHANGED <<uvars, ledger, fvars, hBurned>>

BaseTransfer(from, to, token_id) ==
    /\ NCommit(Base_transfer(NState, from, from, to, token_id),
               NRec("Base::transfer", from, to, token_id))
    /\ UNCHANGED <<uvars, ledger, fvars, hBurned>>

BaseTransferFrom(spender, from, to, token_id) ==
    /\ NCommit(Base_transfer_from(NState, spender, spender, from, to, token_id),
               NRec("Base::transfer_from", from, to, token_id))
    /\ UNCHANGED <<uvars, ledger, fvars, hBurned>>

BaseBurn(from, token_id) ==
    LET st == Base_burn(NState, from, from, token_id) IN
    /\ NCommit(st, NRec("Base::burn", from, None, token_id))
    /\ NBurnt(st, token_id)
    /\ UNCHANGED <<uvars, ledger, fvars>>

BaseBurnFrom(spender, from, token_id) ==
    LET st == Base_burn_from(NState, spender, spender, from, token_id) IN
    /\ NCommit(st, NRec("Base::burn_from", from, None, token_id))
    /\ NBurnt(st, token_id)
    /\ UNCHANGED <<uvars, ledger, fvars>>

\* batch_mint whose counter wraps around instead of aborting
BatchMint_wraps(to, amount, overflow_checks) ==
    LET st == Consecutive_batch_mint(NState, to, amount, overflow_checks)
        w == IF st.err = "MathOverflow"
             THEN [NState EXCEPT !.counter = (counter + amount) % (MaxU32 + 1)]
             ELSE st
    IN /\ NCommit(w, NRec("Consecutive::batch_mint", None, to, w.ret))
       /\ UNCHANGED <<uvars, ledger, fvars, hBurned>>

BatchMint(to, amount, overflow_checks) ==
    LET st == Consecutive_batch_mint(NState, to, amount, overflow_checks) IN
    /\ NCommit(st, NRec("Consecutive::batch_mint", None, to, st.ret))
    /\ UNCHANGED <<uvars, ledger, fvars, hBurned>>

ConsecutiveTransfer(from, to, token_id) ==
    /\ NCommit(Consecutive_transfer(NState, from, from, to, token_id),
               NRec("Consecutive::transfer", from, to, token_id))
    /\ UNCHANGED <<uvars, ledger, fvars, hBurned>>

ConsecutiveTransferFrom(spender, from, to, token_id) ==
    /\ NCommit(Consecutive_transfer_from(NState, spender, spender, from, to, token_id),
               NRec("Consecutive::transfer_from", from, to, token_id))
    /\ UNCHANGED <<uvars, ledger, fvars, hBurned>>

ConsecutiveBurn(from, token_id) ==
    LET st == Consecutive_burn(NState, from, from, token_id) IN
    /\ NCommit(st, NRec("Consecutive::burn", from, None, token_id))
    /\ NBurnt(st, token_id)
    /\ UNCHANGED <<uvars, ledger, fvars>>

ConsecutiveBurnFrom(spender, from, token_id) ==
    LET st == Consecutive_burn_from(NState, spender, spender, from, token_id) IN
    /\ NCommit(st, NRec("Consecutive::burn_from", from, None, token_id))
    /\ NBurnt(st, token_id)
    /\ UNCHANGED <<uvars, ledger, fvars>>

ConsecutiveApprove(approver, approved, token_id, live_until_ledger) ==
    /\ NCommit(Consecutive_approve(NState, approver, approver, approved, token_id,
                                   live_until_ledger),
               NRec("Consecutive::approve", approver, approved, token_id))
    /\ UNCHANGED <<uvars, ledger, fvars, hBurned>>

EnumerableSequentialMint(to) ==
    LET st == Enumerable_sequential_mint(NState, to) IN
    /\ NCommit(st, NRec("Enumerable::sequential_mint", None, to, st.ret))
    /\ UNCHANGED <<uvars, ledger, fvars, hBurned>>

EnumerableNonSequentialMint(to, token_id) ==
    /\ NCommit(Enumerable_non_sequential_mint(NState, to, token_id),
               NRec("Enumerable::non_sequential_mint", None, to, token_id))
    /\ UNCHANGED <<uvars, ledger, fvars, hBurned>>

EnumerableSequentialBurn(from, token_id) ==
    LET st == Enumerable_sequential_burn(NState, from, from, token_id) IN
    /\ NCommit(st, NRec("Enumerable::sequential_burn", from, None, token_id))
    /\ UNCHANGED <<uvars, ledger, fvars, hBurned>>

EnumerableNonSequentialBurn(from, token_id) ==
    LET st == Enumerable_non_sequential_burn(NState, from, from, token_id) IN
    /\ NCommit(st, NRec("Enumerable::non_sequential_burn", from, None, token_id))
    /\ UNCHANGED <<uvars, ledger, fvars, hBurned>>

EnumerableSequentialBurnFrom(spender, from, token_id) ==
    LET st == Enumerable_sequential_burn_from(NState, spender, spender, from, token_id) IN
    /\ NCommit(st, NRec("Enumerable::sequential_burn_from", from, None, token_id))
    /\ UNCHANGED <<uvars, ledger, fvars, hBurned>>

EnumerableNonSequentialBurnFrom(spender, from, token_id) ==
    LET st == Enumerable_non_sequential_burn_from(NState, spender, spender, from,
                                                  token_id) IN
    /\ NCommit(st, NRec("Enumerable::non_sequential_burn_from", from, None, token_id))
    /\ UNCHANGED <<uvars, ledger, fvars, hBurned>>

EnumerableTransfer(from, to, token_id) ==
    /\ NCommit(Enumerable_transfer(NState, from, from, to, token_id),
               NRec("Enumerable::transfer", from, to, token_id))
    /\ UNCHANGED <<uvars, ledger, fvars, hBurned>>

EnumerableTransferFrom(spender, from, to, token_id) ==
    /\ NCommit(Enumerable_transfer_from(NState, spender, spender, from, to, token_id),
               NRec("Enumerable::transfer_from", from, to, token_id))
    /\ UNCHANGED <<uvars, ledger, fvars, hBurned>>

ApprovalNext ==
    \/ \E owner \in Owners, operator \in Spenders,
          live \in NftLiveInputs : NftApproveForAll(owner, operator, live)
    \/ \E id \in TokenIds : EvictApproval(id)
    \/ AdvanceLedger

BaseNext ==
    \/ \E to \in Addr : BaseSequentialMint(to)
    \/ \E from \in Addr, to \in Addr, id \in TokenIds :
          BaseTransfer(from, to, id)
    \/ \E spender \in Addr, from \in Addr, to \in Addr, id \in TokenIds :
          BaseTransferFrom(spender, from, to, id)
    \/ \E from \in Addr, id \in TokenIds : BaseBurn(from, id)
    \/ \E spender \in Addr, from \in Addr, id \in TokenIds :
          BaseBurnFrom(spender, from, id)
    \/ \E approver \in Addr, approved \in Spenders, id \in ApprovableIds,
          live \in NftLiveInputs : NftApprove(approver, approved, id, live)
    \/ ApprovalNext

BaseSpec == Init /\ [][BaseNext]_vars

ConsecutiveNext ==
    \/ \E to \in Addr, amount \in 0..MaxBatch, overflow_checks \in BOOLEAN :
          BatchMint(to, amount, overflow_checks)
    \/ \E from \in Addr, to \in Addr, id \in TokenIds :
          ConsecutiveTransfer(from, to, id)
    \/ \E spender \in Spenders, from \in Addr, to \in Addr, id \in TokenIds :
          ConsecutiveTransferFrom(spender, from, to, id)
    \/ \E from \in Addr, id \in TokenIds : ConsecutiveBurn(from, id)
    \/ \E spender \in Spenders, from \in Addr, id \in TokenIds :
          ConsecutiveBurnFrom(spender, from, id)
    \/ \E approver \in Addr, approved \in Spenders, id \in ApprovableIds,
          live \in NftLiveInputs : ConsecutiveApprove(approver, approved, id, live)
    \/ \E owner \in Owners, operator \in Spenders,
          live \in NftLiveInputs : NftApproveForAll(owner, operator, live)

ConsecutiveSpec == Init /\ [][ConsecutiveNext]_vars

\* minting with sequential and with caller-chosen ids, burning with the
\* non-sequential variants
EnumerableNext ==
    \/ \E to \in Addr : EnumerableSequentialMint(to)
    \/ \E to \in Addr, id \in NonSequentialIds : EnumerableNonSequentialMint(to, id)
    \/ \E from \in Addr, id \in TokenIds : EnumerableNonSequentialBurn(from, id)
    \/ \E spender \in Spenders, from \in Addr, id \in TokenIds :
          EnumerableNonSequentialBurnFrom(spender, from, id)
    \/ \E from \in Addr, to \in Addr, id \in TokenIds :
          EnumerableTransfer(from, to, id)
    \/ \E spender \in Spenders, from \in Addr, to \in Addr, id \in TokenIds :
          EnumerableTransferFrom(spender, from, to, id)
    \/ \E owner \in Owners, operator \in Spenders,
          live \in NftLiveInputs : NftApproveForAll(owner, operator, live)

EnumerableSpec == Init /\ [][EnumerableNext]_vars

\* sequential ids only, burning with the sequential variants
EnumerableSequentialNext ==
    \/ \E to \in Addr : EnumerableSequentialMint(to)
    \/ \E from \in Addr, id \in TokenIds : EnumerableSequentialBurn(from, id)
    \/ \E spender \in Spenders, from \in Addr, id \in TokenIds :
          EnumerableSequentialBurnFrom(spender, from, id)
    \/ \E from \in Addr, to \in Addr, id \in TokenIds :
          EnumerableTransfer(from, to, id)
    \/ \E spender \in Spenders, from \in Addr, to \in Addr, id \in TokenIds :
          EnumerableTransferFrom(spender, from, to, id)
    \/ \E owner \in Owners, operator \in Spenders,
          live \in NftLiveInputs : NftApproveForAll(owner, operator, live)

EnumerableSequentialSpec == Init /\ [][EnumerableSequentialNext]_vars

\* the ids the caller of non_sequential_mint chooses from
ChosenIds == {0, 1, 2}

\* non_sequential_mint called with an id no token exists under
EnumerableNonSequentialMintFree(to, token_id) ==
    /\ nOwner[token_id] = None
    /\ EnumerableNonSequentialMint(to, token_id)

\* caller-chosen ids only, each minted while no token exists under it, burning
\* with the non-sequential variants
EnumerableNonSequentialNext ==
    \/ \E to \in Addr, id \in ChosenIds : EnumerableNonSequentialMintFree(to, id)
    \/ \E from \in Addr, id \in TokenIds : EnumerableNonSequentialBurn(from, id)
    \/ \E spender \in Spenders, from \in Addr, id \in TokenIds :
          EnumerableNonSequentialBurnFrom(spender, from, id)
    \/ \E from \in Addr, to \in Addr, id \in TokenIds :
          EnumerableTransfer(from, to, id)
    \/ \E spender \in Spenders, from \in Addr, to \in Addr, id \in TokenIds :
          EnumerableTransferFrom(spender, from, to, id)
    \/ \E owner \in Owners, operator \in Spenders,
          live \in NftLiveInputs : NftApproveForAll(owner, operator, live)

EnumerableNonSequentialSpec == Init /\ [][EnumerableNonSequentialNext]_vars

\* the Consecutive type with the ledger clock: approvals and operator
\* entries expire between the invocations
ConsecutiveGateNext ==
    \/ \E to \in Owners, amount \in 1..MaxBatch : BatchMint(to, amount, TRUE)
    \/ \E spender \in Addr, from \in Addr, to \in Addr, id \in ApprovableIds :
          ConsecutiveTransferFrom(spender, from, to, id)
    \/ \E spender \in Addr, from \in Addr, id \in ApprovableIds :
          ConsecutiveBurnFrom(spender, from, id)
    \/ \E approver \in Addr, approved \in Spenders, id \in ApprovableIds,
          live \in NftLiveInputs : ConsecutiveApprove(approver, approved, id, live)
    \/ \E owner \in Owners, operator \in Spenders,
          live \in NftLiveInputs : NftApproveForAll(owner, operator, live)
    \/ AdvanceLedger

ConsecutiveGateSpec == Init /\ [][ConsecutiveGateNext]_vars

\* the Base type with every account an owner and an operator
OperatorNext ==
    \/ \E to \in Addr : BaseSequentialMint(to)
    \/ \E spender \in Addr, from \in Addr, to \in Addr, id \in ApprovableIds :
          BaseTransferFrom(spender, from, to, id)
    \/ \E approver \in Owners, approved \in Spenders, id \in NonSequentialIds,
          live \in NftLiveInputs : NftApprove(approver, approved, id, live)
    \/ \E owner \in Addr, operator \in Addr, live \in NftLiveInputs :
          NftApproveForAll(owner, operator, live)
    \/ AdvanceLedger

OperatorSpec == Init /\ [][OperatorNext]_vars

(***************************************************************************)
(* The OZStellarNFT contract: capped sequential mint over the Base ledger  *)
(***************************************************************************)
\* mint without the check of the returned id
OZStellarNFT_mint_uncapped(st, to) == Base_sequential_mint(st, to)

OZStellarNFT_mint(st, to) ==
    LET s1 == Base_sequential_mint(st, to) IN
    IF s1.err # "ok" THEN s1
    ELSE IF s1.ret > MaxMintedId
         THEN [s1 EXCEPT !.err = "Maximum minted already"]
         ELSE s1

OZStellarNFTMint(to) ==
    LET st == OZStellarNFT_mint(NState, to) IN
    /\ NCommit(st, NRec("OZStellarNFT::mint", None, to, st.ret))
    /\ UNCHANGED <<uvars, ledger, fvars, hBurned>>

\* mint and the NonFungibleToken entry points the contract takes from Base
OZStellarNFTNext ==
    \/ \E to \in Addr : OZStellarNFTMint(to)
    \/ \E from \in Addr, to \in Addr, id \in TokenIds :
          BaseTransfer(from, to, id)
    \/ \E spender \in Addr, from \in Addr, to \in Addr, id \in TokenIds :
          BaseTransferFrom(spender, from, to, id)
    \/ \E approver \in Addr, approved \in Spenders, id \in ApprovableIds,
          live \in NftLiveInputs : NftApprove(approver, approved, id, live)
    \/ ApprovalNext

OZStellarNFTSpec == Init /\ [][OZStellarNFTNext]_vars

(***************************************************************************)
(* Upgradeable: the upgrade flag and the derived entry points              *)
(***************************************************************************)
UState == [err |-> "ok", upgrade_state |-> upgradeState, wasm |-> wasm]

get_upgrade_state(st) ==
    IF st.upgrade_state = Unset THEN "Initial" ELSE st.upgrade_state

start_migration(st) ==
    IF st.err # "ok" THEN st ELSE [st EXCEPT !.upgrade_state = "Initial"]

can_migrate(st) == get_upgrade_state(st) = "Initial"

can_rollback_not_initial(st) == get_upgrade_state(st) # "Initial"

can_rollback(st) == get_upgrade_state(st) = "Migrated"

complete_migration(st) ==
    IF st.err # "ok" THEN st ELSE [st EXCEPT !.upgrade_state = "Migrated"]

complete_rollback_reopens(st) ==
    IF st.err # "ok" THEN st ELSE [st EXCEPT !.upgrade_state = "Initial"]

complete_rollback(st) ==
    IF st.err # "ok" THEN st ELSE [st EXCEPT !.upgrade_state = "RolledBack"]

ensure_can_migrate(st) ==
    IF st.err # "ok" THEN st
    ELSE IF ~can_migrate(st) THEN [st EXCEPT !.err = "MigrationNotAllowed"] ELSE st

ensure_can_rollback(st) ==
    IF st.err # "ok" THEN st
    ELSE IF ~can_rollback(st) THEN [st EXCEPT !.err = "RollbackNotAllowed"] ELSE st

\* the contract's own hook (_upgrade_auth, _migrate, _rollback) returns or panics
internal(st, returns) ==
    IF st.err # "ok" THEN st
    ELSE IF ~returns THEN [st EXCEPT !.err = "InternalPanic"] ELSE st

update_current_contract_wasm(st, new_wasm_hash) ==
    IF st.err # "ok" THEN st ELSE [st EXCEPT !.wasm = new_wasm_hash]

upgrade(st, new_wasm_hash, auth_returns) ==
    update_current_contract_wasm(start_migration(internal(st, auth_returns)),
                                 new_wasm_hash)

migrate(st, migrate_returns) ==
    complete_migration(internal(ensure_can_migrate(st), migrate_returns))

rollback(st, rollback_returns) ==
    complete_rollback(internal(ensure_can_rollback(st), rollback_returns))

UCommit(st, rec) ==
    /\ last' = [rec EXCEPT !.res = st.err]
    /\ IF st.err = "ok"
       THEN /\ upgradeState' = st.upgrade_state
            /\ wasm' = st.wasm
       ELSE UNCHANGED <<upgradeState, wasm>>

Upgrade(new_wasm_hash, auth_returns) ==
    LET st == upgrade(UState, new_wasm_hash, auth_returns) IN
    /\ hUpgraded < MaxUpgrades
    /\ UCommit(st, Rec("upgrade"))
    /\ hUpgraded' = IF st.err = "ok" THEN hUpgraded + 1 ELSE hUpgraded
    /\ hMigrated' = IF st.err = "ok" THEN 0 ELSE hMigrated
    /\ hRolledBack' = IF st.err = "ok" THEN 0 ELSE hRolledBack
    /\ UNCHANGED <<ledger, fvars, nvars>>

Migrate(migrate_returns) ==
    LET st == migrate(UState, migrate_returns) IN
    /\ UCommit(st, Rec("migrate"))
    /\ hMigrated' = IF st.err = "ok" THEN hMigrated + 1 ELSE hMigrated
    /\ UNCHANGED <<ledger, fvars, nvars, hUpgraded, hRolledBack>>

Rollback(rollback_returns) ==
    LET st == rollback(UState, rollback_returns) IN
    /\ UCommit(st, Rec("rollback"))
    /\ hRolledBack' = IF st.err = "ok" THEN hRolledBack + 1 ELSE hRolledBack
    /\ UNCHANGED <<ledger, fvars, nvars, hUpgraded, hMigrated>>

UpgradeableNext ==
    \/ \E new_wasm_hash \in WasmHashes, auth_returns \in BOOLEAN :
          Upgrade(new_wasm_hash, auth_returns)
    \/ \E migrate_returns \in BOOLEAN : Migrate(migrate_returns)
    \/ \E rollback_returns \in BOOLEAN : Rollback(rollback_returns)

UpgradeableSpec == Init /\ [][UpgradeableNext]_vars

Next == \/ FungibleNext
        \/ BaseNext
        \/ OZStellarNFTNext
        \/ ConsecutiveNext
        \/ EnumerableNext
        \/ EnumerableSequentialNext
        \/ EnumerableNonSequentialNext
        \/ CappedNext
        \/ OperatorNext
        \/ UpgradeableNext
        \/ ConsecutiveGateNext

Spec == Init /\ [][Next]_vars

(***************************************************************************)
(* Fungible ledger: properties                                             *)
(***************************************************************************)
\* C1: the total supply equals the sum of all balances in every reachable
\* state of the fungible ledger (mint, transfer, transfer_from, burn and
\* update with any combination of from/to, from = to included)
C1_Conservation == fTotalSupply = SumOver(fBalance, Addr)

\* C1 witness: an update committed and both accounts hold tokens
C1_Witness ==
    /\ last.op = "update" /\ last.res = "ok"
    /\ fBalance["a1"] > 0 /\ fBalance["a2"] > 0
    /\ fTotalSupply = MaxI128

\* C7 (as claimed): with old = allowance(o, s) and k >= 0, spend_allowance(o, s, k)
\* aborts with InsufficientAllowance if k > old, and otherwise commits, after
\* which allowance(o, s) = old - k and the expiry tick is unchanged
C7_SpendAllowance ==
    \A o \in Addr, s \in Addr, k \in 0..MaxAmount :
        LET old == allowance(FState, o, s)
            st  == spend_allowance(FState, o, s, k)
        IN IF k > old
           THEN st.err = "InsufficientAllowance"
           ELSE /\ st.err = "ok"
                /\ allowance(st, o, s) = old - k
                /\ allowance_data(st, o, s).live_until_ledger
                     = allowance_data(FState, o, s).live_until_ledger

\* C8: after a committed approve(owner, spender, a, L) with a > 0 and no later
\* approve for the pair, allowance(owner, spender) is 0 at every tick > L,
\* whether or not the temporary entry was evicted
C8_Expiry ==
    \A p \in Addr \X Addr : \A L \in fApproved[p] :
        ledger > L => allowance(FState, p[1], p[2]) = 0

\* C8 witness: the approval has expired and its entry, with a positive
\* amount, is still in the store
C8_Witness ==
    \E p \in Addr \X Addr : \E L \in fApproved[p] :
        /\ ledger > L
        /\ fAllowance[p].present /\ fAllowance[p].amount > 0

\* C9 (as claimed): at a tick greater than the allowance's live_until_ledger,
\* transfer_from with amount > 0 aborts, also when the entry is still stored
\* with an amount >= the requested amount
C9_ExpiredUnusable ==
    \A signer \in Addr, sp \in Addr, f \in Addr, t \in Addr, amt \in 1..MaxAmount :
        LET entry == fAllowance[<<f, sp>>] IN
        (entry.present /\ entry.live_until_ledger < ledger /\ entry.amount >= amt)
            => transfer_from(FState, signer, sp, f, t, amt).err # "ok"

\* C10 (as claimed): approve with amount >= 0 commits if and only if
\* live_until_ledger is 0 with amount = 0, or ledger <= live_until_ledger <=
\* max_live_until_ledger; every other combination aborts with
\* InvalidLiveUntilLedger
C10_ApproveValidation ==
    \A o \in Addr, s \in Addr, amt \in 0..MaxAmount, live \in LiveInputs :
        LET st == approve(FState, o, o, s, amt, live)
            valid == \/ (live = 0 /\ amt = 0)
                     \/ (ledger <= live /\ live <= max_live_until_ledger)
        IN IF valid THEN st.err = "ok" ELSE st.err = "InvalidLiveUntilLedger"

(***************************************************************************)
(* Non-fungible Base ledger: properties                                    *)
(***************************************************************************)
Owned(account) == {t \in TokenIds : nOwner[t] = account}

NeverMinted(t) == t >= counter /\ nOwner[t] = None /\ t \notin hBurned
IsOwned(t) == t < counter /\ nOwner[t] # None /\ t \notin hBurned
IsBurned(t) == t < counter /\ nOwner[t] = None /\ t \in hBurned

\* C5: every token id is never-minted, owned or burned, and balance(a) is
\* the number of token ids whose recorded owner is a
C5_TokenStates ==
    /\ \A t \in TokenIds : NeverMinted(t) \/ IsOwned(t) \/ IsBurned(t)
    /\ \A a \in Addr : nBalance[a] = Cardinality(Owned(a))

\* C5 witness: a burn committed; one token is burned, one owned, one not minted
C5_Witness ==
    /\ last.op \in {"Base::burn", "Base::burn_from"} /\ last.res = "ok"
    /\ \E t \in TokenIds : IsBurned(t)
    /\ \E t \in TokenIds : IsOwned(t)
    /\ \E t \in TokenIds : NeverMinted(t)

\* spender is the owner of id, the live approved account of id or a live
\* operator of the owner
SpenderAllowed(spender, id) ==
    /\ nOwner[id] # None
    /\ \/ spender = nOwner[id]
       \/ (nApproval[id].present /\ nApproval[id].live_until_ledger >= ledger
           /\ nApproval[id].approved = spender)
       \/ (nOperators[<<nOwner[id], spender>>].present
           /\ nOperators[<<nOwner[id], spender>>].live_until_ledger >= ledger)

\* C6 (as claimed): Base transfer_from and burn_from of an existing token commit
\* only if the spender is allowed, and otherwise abort with InsufficientApproval
C6_GateAsClaimed ==
    \A sp \in Addr, f \in Addr, t \in Addr, id \in TokenIds :
        nOwner[id] # None =>
            LET tf == Base_transfer_from(NState, sp, sp, f, t, id)
                bf == Base_burn_from(NState, sp, sp, f, id)
            IN IF SpenderAllowed(sp, id)
               THEN TRUE
               ELSE tf.err = "InsufficientApproval" /\ bf.err = "InsufficientApproval"

\* C6 (amended): Base transfer_from and burn_from of an existing token commit
\* only if from is the owner and the spender is allowed; when from is the owner
\* and the spender is not allowed they abort with InsufficientApproval
C6_Gate ==
    \A sp \in Addr, f \in Addr, t \in Addr, id \in TokenIds :
        nOwner[id] # None =>
            LET tf == Base_transfer_from(NState, sp, sp, f, t, id)
                bf == Base_burn_from(NState, sp, sp, f, id)
            IN /\ (tf.err = "ok" \/ bf.err = "ok")
                    => (f = nOwner[id] /\ SpenderAllowed(sp, id))
               /\ (f = nOwner[id] /\ ~SpenderAllowed(sp, id))
                    => (tf.err = "InsufficientApproval" /\ bf.err = "InsufficientApproval")

\* C6 witness: a transfer_from or burn_from was refused for lack of approval
\* while an owned token carries an approval that has expired
C6_Witness ==
    /\ last.op \in {"Base::transfer_from", "Base::burn_from"}
    /\ last.res = "InsufficientApproval"
    /\ \E id \in TokenIds :
          /\ nOwner[id] # None
          /\ nApproval[id].present
          /\ nApproval[id].live_until_ledger < ledger
          /\ ~SpenderAllowed(nApproval[id].approved, id)

(***************************************************************************)
(* Consecutive ledger: properties                                          *)
(***************************************************************************)
\* C2: a committed Consecutive transfer, transfer_from, burn or burn_from of
\* token t leaves owner_of(u) as it was for every other minted, unburned
\* token u, and after a transfer owner_of(t) = to
C2_OwnerFrame ==
    [][(/\ last'.op \in {"Consecutive::transfer", "Consecutive::transfer_from",
                         "Consecutive::burn", "Consecutive::burn_from"}
        /\ last'.res = "ok")
       => /\ \A u \in TokenIds \ {last'.id} :
                (u < counter /\ ~cBurned[u])
                    => /\ Consecutive_owner_of(NState, u) # None
                       /\ Consecutive_owner_of(NState', u)
                            = Consecutive_owner_of(NState, u)
          /\ last'.to # None
                => Consecutive_owner_of(NState', last'.id) = last'.to]_vars

\* C2 witness: the middle token of a batch of three was transferred to
\* another account and both neighbours still resolve to the minter, the
\* successor through its repaired owner record
C2_Witness ==
    /\ last.op \in {"Consecutive::transfer", "Consecutive::transfer_from"}
    /\ last.res = "ok" /\ last.id = 1 /\ last.from # last.to
    /\ counter >= 3
    /\ nOwner[0] = last.from /\ nOwner[1] = last.to /\ nOwner[2] = last.from
    /\ Consecutive_owner_of(NState, 2) = last.from

(***************************************************************************)
(* Enumerable ledger: properties                                           *)
(***************************************************************************)
\* the forward entries OwnerTokens(A, 0..balance(A)-1) of account A
OwnerList(A) == {OwnerTokens[<<A, i>>] : i \in 0..(nBalance[A] - 1)}

\* C3: for every account A the forward map restricted to 0..balance(A)-1 is
\* a bijection onto the tokens A owns, OwnerTokensIndex is its inverse, and
\* no forward entry exists at an index >= balance(A)
C3_OwnerListBijection ==
    "Enumerable::non_sequential_mint" \notin hMintedOver =>
    \A A \in Addr :
        /\ OwnerList(A) = Owned(A)
        /\ \A i, j \in 0..(nBalance[A] - 1) :
               OwnerTokens[<<A, i>>] = OwnerTokens[<<A, j>>] => i = j
        /\ \A t \in Owned(A), i \in 0..(nBalance[A] - 1) :
               (OwnerTokensIndex[t] = i) <=> (OwnerTokens[<<A, i>>] = t)
        /\ \A i \in TokenIds : i >= nBalance[A] => OwnerTokens[<<A, i>>] = NoEntry

\* C11: a step taken with the supply within the cap in force after it leaves
\* the supply within that cap, and once a cap c is set, check_cap(a) aborts
\* with ExceededCap exactly when total_supply() + a > c and passes otherwise
C11_Cap ==
    [][ /\ (fCap' # CapNotSet /\ fTotalSupply <= fCap') => fTotalSupply' <= fCap'
        /\ fCap' # CapNotSet =>
              \A a \in Amounts, overflow_checks \in BOOLEAN :
                 (check_cap(FState, a, overflow_checks).err)' =
                    IF fTotalSupply' + a > fCap' THEN "ExceededCap" ELSE "ok" ]_vars

\* the tokens that exist
Existing == {t \in TokenIds : nOwner[t] # None}

\* the forward entries GlobalTokens(0..total_supply()-1)
GlobalList == {GlobalTokens[i] : i \in 0..(eTotalSupply - 1)}

\* C12: with caller-chosen ids minted only while free, GlobalTokens
\* restricted to 0..total_supply()-1 is a bijection onto the existing
\* tokens, GlobalTokensIndex is its inverse, and no entry exists at an index
\* >= total_supply()
C12_GlobalListBijection ==
    /\ GlobalList = Existing
    /\ \A i, j \in 0..(eTotalSupply - 1) : GlobalTokens[i] = GlobalTokens[j] => i = j
    /\ \A t \in Existing, i \in 0..(eTotalSupply - 1) :
           (GlobalTokensIndex[t] = i) <=> (GlobalTokens[i] = t)
    /\ \A t \in TokenIds : t \notin Existing => GlobalTokensIndex[t] = NoEntry
    /\ \A i \in TokenIds : i >= eTotalSupply => GlobalTokens[i] = NoEntry

\* a burn of token 2 committed while it was the only token, hence in the last
\* slot of the list
C12_Witness ==
    /\ last.op \in {"Enumerable::non_sequential_burn",
                    "Enumerable::non_sequential_burn_from"}
    /\ last.res = "ok"
    /\ last.id = 2
    /\ eTotalSupply = 0
    /\ GlobalTokens[0] = NoEntry

(***************************************************************************)
(* Consecutive ledger: balances, existence and batch minting               *)
(***************************************************************************)
\* the tokens owner_of attributes to the account
ConsecutiveOwned(account) ==
    {t \in TokenIds : /\ t < counter
                      /\ ~cBurned[t]
                      /\ Consecutive_owner_of(NState, t) = account}

\* C13: the stored balance of every account is the number of ids below
\* next_token_id that are not burned and that owner_of attributes to it
C13_ConsecutiveBalance ==
    \A a \in Addr : nBalance[a] = Cardinality(ConsecutiveOwned(a))

\* after a committed transfer both accounts hold tokens and one token is
\* owned through the record of a lower id
C13_Witness ==
    /\ last.op \in {"Consecutive::transfer", "Consecutive::transfer_from"}
    /\ last.res = "ok"
    /\ nBalance["a1"] >= 1 /\ nBalance["a2"] >= 1
    /\ \E t \in TokenIds :
          t < counter /\ ~cBurned[t] /\ nOwner[t] = None

\* C14: owner_of(id) aborts with NonExistentToken for every id >=
\* next_token_id and for every id a burn has ever committed on; such an id
\* keeps its BurnedToken marker, and every transfer and transfer_from of it
\* aborts, whoever calls and whatever was done since the burn
C14_Existence ==
    \A t \in TokenIds :
        /\ t >= counter => Consecutive_owner_of(NState, t) = None
        /\ t \in hBurned =>
              /\ cBurned[t]
              /\ t < counter
              /\ Consecutive_owner_of(NState, t) = None
              /\ \A from \in Addr, to \in Addr :
                    Consecutive_transfer(NState, from, from, to, t).err = "NonExistentToken"
              /\ \A spender \in Addr, from \in Addr, to \in Addr :
                    Consecutive_transfer_from(NState, spender, spender, from, to, t).err
                        # "ok"

\* token 1 was burned, its lower neighbour still carries an owner record, and
\* a later batch_mint committed
C14_Witness ==
    /\ 1 \in hBurned
    /\ nOwner[0] # None
    /\ last.op = "Consecutive::batch_mint" /\ last.res = "ok" /\ last.id = 2

\* C15: in every reachable state with counter c, a batch_mint(to, n) with
\* n >= 1 that commits sets the counter to c + n, writes an owner record at
\* id c and nowhere else, adds n to balance(to) and nothing to other
\* balances, returns c + n - 1, makes owner_of(i) = to for every i in
\* c..c+n-1 and leaves owner_of of every id below c as it was
C15_BatchMint ==
    \A to \in Addr, n \in 1..MaxBatch, overflow_checks \in BOOLEAN :
        LET st == Consecutive_batch_mint(NState, to, n, overflow_checks) IN
        st.err = "ok" =>
            /\ next_token_id(st) = counter + n
            /\ st.owner = [nOwner EXCEPT ![counter] = to]
            /\ st.balance = [nBalance EXCEPT ![to] = @ + n]
            /\ st.burned = cBurned
            /\ st.ret = counter + n - 1
            /\ \A i \in counter..(counter + n - 1) : Consecutive_owner_of(st, i) = to
            /\ \A u \in 0..(counter - 1) :
                  Consecutive_owner_of(st, u) = Consecutive_owner_of(NState, u)

\* a batch of at least two ids was minted after tokens of another account
\* had been minted: the last id of the batch carries no owner record
C15_Witness ==
    /\ last.op = "Consecutive::batch_mint" /\ last.res = "ok"
    /\ last.id = counter - 1 /\ counter >= 3
    /\ nOwner[0] \notin {None, last.to}
    /\ nOwner[counter - 1] = None /\ nOwner[counter - 2] = last.to
    /\ Consecutive_owner_of(NState, counter - 1) = last.to

(***************************************************************************)
(* Non-fungible ledger: approvals                                          *)
(***************************************************************************)
\* the approver is the recorded owner of the token or a live operator of it
ValidApprover(approver, id) ==
    /\ nOwner[id] # None
    /\ \/ nOwner[id] = approver
       \/ is_approved_for_all(NState, nOwner[id], approver)

MoveOps == {"Base::transfer", "Base::transfer_from", "Base::burn", "Base::burn_from",
            "Consecutive::transfer", "Consecutive::transfer_from",
            "Consecutive::burn", "Consecutive::burn_from",
            "Enumerable::transfer", "Enumerable::transfer_from",
            "Enumerable::sequential_burn", "Enumerable::sequential_burn_from",
            "Enumerable::non_sequential_burn", "Enumerable::non_sequential_burn_from"}

OperatorFrame ==
    \A p \in Addr \X Addr :
        nOperators'[p] # nOperators[p]
            => /\ last'.op = "Base::approve_for_all" /\ last'.res = "ok"
               /\ last'.from = p[1] /\ last'.to = p[2]

\* approve_for_all(owner, operator, L) with L >= ledger and L > 0 commits,
\* stores expiry L for that pair and is_approved_for_all is true for it
OperatorSet(owner, operator, L) ==
    LET st == approve_for_all(NState, owner, owner, operator, L) IN
    (L >= ledger /\ L > 0)
        => /\ st.err = "ok"
           /\ is_approved_for_all(st, owner, operator)
           /\ st.operators =
                 [nOperators EXCEPT ![<<owner, operator>>] =
                     [present |-> TRUE, live_until_ledger |-> L]]

\* st is the state a committed approve_for_all(owner, operator, 0) leaves:
\* the pair is cleared, no other pair is touched
OperatorRevoked(st, owner, operator) ==
    /\ st.err = "ok"
    /\ ~is_approved_for_all(st, owner, operator)
    /\ st.operators = [nOperators EXCEPT ![<<owner, operator>>] = NoOperator]

\* in st every transfer_from by the operator of a token of the owner aborts
RevokedCannotMove(st, owner, operator) ==
    \A id \in Owned(owner), to \in Addr :
        Base_transfer_from(st, operator, operator, owner, to, id).err # "ok"

\* in st transfer_from by the operator of a token of the owner commits when
\* the token's live approval slot names the operator and aborts with
\* InsufficientApproval when it does not
RevokedMovesBySlotOnly(st, owner, operator) ==
    \A id \in Owned(owner), to \in Addr :
        Base_transfer_from(st, operator, operator, owner, to, id).err
            = IF get_approved(st, id) = operator THEN "ok" ELSE "InsufficientApproval"

\* C18 as stated: an operator entry changes only when an approve_for_all of
\* its owner for its operator commits; approve_for_all with L >= ledger
\* stores L for the pair only and makes is_approved_for_all true;
\* approve_for_all with 0 clears the pair only, and then every transfer_from
\* by that operator (another account than the owner) of the owner's tokens
\* aborts
C18_OperatorsAsClaimed ==
    [][ /\ OperatorFrame
        /\ \A owner \in Addr : \A operator \in Addr \ {owner} :
              /\ \A L \in LiveInputs : OperatorSet(owner, operator, L)
              /\ OperatorRevoked(approve_for_all(NState, owner, owner, operator, 0),
                                 owner, operator)
              /\ RevokedCannotMove(approve_for_all(NState, owner, owner, operator, 0),
                                   owner, operator) ]_vars

\* C18, amended: as above, except that after the revocation transfer_from by
\* that operator aborts with InsufficientApproval for the tokens of the owner
\* whose unexpired approval slot does not name the operator, and commits for
\* the tokens whose slot does
C18_Operators ==
    [][ /\ OperatorFrame
        /\ \A owner \in Addr : \A operator \in Addr \ {owner} :
              /\ \A L \in LiveInputs : OperatorSet(owner, operator, L)
              /\ OperatorRevoked(approve_for_all(NState, owner, owner, operator, 0),
                                 owner, operator)
              /\ RevokedMovesBySlotOnly(
                     approve_for_all(NState, owner, owner, operator, 0),
                     owner, operator) ]_vars

\* a revocation committed after the ledger had advanced, while the owner
\* holds a token and an operator entry of another pair is still stored
C18_Witness ==
    /\ last.op = "Base::approve_for_all" /\ last.res = "ok"
    /\ last.from # last.to
    /\ ~nOperators[<<last.from, last.to>>].present
    /\ ledger >= 1
    /\ \E id \in TokenIds : nOwner[id] = last.from
    /\ \E p \in Addr \X Addr : p # <<last.from, last.to>> /\ nOperators[p].present

C20_SequentialGlobalIndex == Existing = 0..(eTotalSupply - 1)

(***************************************************************************)
(* Fungible ledger: authorization and rejections                           *)
(***************************************************************************)
\* C21: a transfer that lowers balance(a) is authorised by a; a transfer_from
\* that lowers balance(a) is authorised by its spender, whose unexpired
\* allowance from a is at least the amount; an approve that commits is
\* authorised by the owner and changes that owner's allowance for that
\* spender only; a transfer_from changes only the allowance it spends; an
\* invocation without the required authorization aborts
C21_Authorization ==
    \A signer \in Addr, spender \in Addr, from \in Addr, to \in Addr,
       amount \in Amounts :
        LET t  == transfer(FState, signer, from, to, amount)
            tf == transfer_from(FState, signer, spender, from, to, amount)
        IN /\ signer # from => t.err = "AuthFailed"
           /\ signer # spender => tf.err = "AuthFailed"
           /\ t.err = "ok" =>
                 /\ t.allowance = fAllowance
                 /\ \A a \in Addr : t.balance[a] < fBalance[a] => a = signer
           /\ tf.err = "ok" =>
                 /\ \A p \in Addr \X Addr :
                       tf.allowance[p] # fAllowance[p] => p = <<from, signer>>
                 /\ \A a \in Addr :
                       tf.balance[a] < fBalance[a]
                          => a = from /\ allowance(FState, a, signer) >= amount
           /\ \A live \in LiveInputs :
                 LET ap == approve(FState, signer, from, spender, amount, live) IN
                 /\ signer # from => ap.err = "AuthFailed"
                 /\ ap.err = "ok" =>
                       /\ ap.balance = fBalance
                       /\ \A p \in Addr \X Addr :
                             ap.allowance[p] # fAllowance[p] => p = <<signer, spender>>
\* C25: update aborts with LessThanZero when the amount is negative and with
\* InsufficientBalance when from is set and holds less than the amount; both
\* checks come before any write, so the balances and the total supply of the
\* aborted invocation are the stored ones, and every balance and the total
\* supply are >= 0 in every reachable state
C25_UpdateRejections ==
    /\ \A from \in AddrOpt, to \in AddrOpt, amount \in Amounts :
          LET u == update(FState, from, to, amount) IN
          /\ amount < 0 => u.err = "LessThanZero"
          /\ (amount >= 0 /\ from # None /\ balance(FState, from) < amount)
                => u.err = "InsufficientBalance"
          /\ u.err \in {"LessThanZero", "InsufficientBalance"}
                => /\ u.balance = fBalance
                   /\ u.total_supply = fTotalSupply
    /\ \A a \in Addr : fBalance[a] >= 0
    /\ fTotalSupply >= 0

C25_Witness ==
    /\ last.op = "update"
    /\ last.res = "InsufficientBalance"
    /\ fTotalSupply > 0
    /\ \E a \in Addr : fBalance[a] = 0

C35_NoOverflow ==
    /\ \A to \in Addr, amount \in Amounts :
          (mint(FState, to, amount).err = "MathOverflow")
              <=> (amount >= 0 /\ total_supply(FState) + amount > MaxI128)
    /\ \A from \in AddrOpt, to \in AddrOpt, amount \in Amounts :
          LET u == update(FState, from, to, amount) IN
          /\ u.err # "ArithmeticOverflow"
          /\ u.err = "ok" => /\ total_supply(u) \in 0..MaxI128
                             /\ \A a \in Addr : balance(u, a) \in 0..MaxI128
    /\ update(FState, None, None, MaxAmount).err = "ok"
          => total_supply(update(FState, None, None, MaxAmount)) = fTotalSupply

\* a mint was refused with MathOverflow while the supply stands at the
\* maximum and one account holds all of it
C35_Witness ==
    /\ last.op = "mint"
    /\ last.res = "MathOverflow"
    /\ fTotalSupply = MaxI128
    /\ \E a \in Addr : fBalance[a] = MaxI128

\* C37: a set_allowance that commits with amount > 0 at ledger c and expiry
\* L asks for a lifetime of exactly L - c ledgers, which is not negative and
\* does not reach beyond max_live_until_ledger; with amount = 0 the entry is
\* written and no extension is asked for
C37_AllowanceLifetime ==
    \A owner \in Addr, spender \in Addr, amount \in Amounts, L \in LiveInputs :
        LET st == set_allowance(FState, owner, spender, amount, L)
            requested == extend_ttl(FState, owner, spender, amount, L)
        IN st.err = "ok" =>
              /\ st.allowance[<<owner, spender>>] =
                    [present |-> TRUE, amount |-> amount, live_until_ledger |-> L]
              /\ amount > 0 => /\ requested = L - ledger
                               /\ requested >= 0
                               /\ ledger + requested <= max_live_until_ledger
              /\ amount = 0 => requested = NoExtension

\* after the ledger advanced, an approve with a positive amount committed
\* with the latest expiry the host allows
C37_Witness ==
    /\ last.op = "approve" /\ last.res = "ok"
    /\ ledger >= 1
    /\ \E p \in Addr \X Addr :
          /\ fApproved[p] = {max_live_until_ledger}
          /\ fAllowance[p].live_until_ledger = max_live_until_ledger
          /\ extend_ttl(FState, p[1], p[2], fAllowance[p].amount,
                        max_live_until_ledger) = MaxEntryTTL - 1

\* C38: every committed OZStellarNFT mint returns the id the counter stood
\* at, an id in 0..MaxMintedId, and advances the counter by one, so that at
\* most MaxMintedId + 1 tokens exist; once id MaxMintedId was issued every mint
\* aborts, an aborted mint leaves the counter, the owner records and the
\* balances as they were, and the counter stays where it is from then on
C38_CappedMint ==
    [][/\ (last'.op = "OZStellarNFT::mint" /\ last'.res = "ok") =>
             /\ last'.id = counter
             /\ last'.id \in 0..MaxMintedId
             /\ counter' = counter + 1
             /\ nOwner[last'.id] = None
             /\ nOwner'[last'.id] = last'.to
       /\ counter' <= MaxMintedId + 1
       /\ Cardinality({id \in TokenIds : nOwner'[id] # None}) <= MaxMintedId + 1
       /\ counter = MaxMintedId + 1 =>
             /\ counter' = counter
             /\ \A to \in Addr : OZStellarNFT_mint(NState, to).err # "ok"
       /\ (last'.op = "OZStellarNFT::mint" /\ last'.res # "ok") =>
             /\ counter = MaxMintedId + 1
             /\ counter' = counter
             /\ nOwner' = nOwner
             /\ nBalance' = nBalance]_vars

\* a mint was attempted and aborted after id MaxMintedId had been issued
C38_Witness ==
    /\ last.op = "OZStellarNFT::mint"
    /\ last.res = "Maximum minted already"
    /\ counter = MaxMintedId + 1
    /\ nOwner[MaxMintedId] # None

\* set_owner_for writes for this id: it is below the counter, has no owner
\* record and is not burned
SetOwnerWrites(id) == id < next_token_id(NState) /\ nOwner[id] = None /\ ~cBurned[id]

\* C39: set_owner_for(to, id) writes Owner(id) = to only when id is below
\* next_token_id, has no owner record and is not burned; otherwise it changes
\* nothing; it never aborts and never touches another owner record, a burn
\* marker or a balance; a committed transfer_from or burn_from of id t leaves
\* Owner(t + 1) as set_owner_for(from, t + 1) decides
C39_SetOwnerFor ==
    [][/\ \A to \in Addr, id \in TokenIds :
             LET r == Consecutive_set_owner_for(NState, to, id) IN
             /\ r.err = "ok"
             /\ r.burned = cBurned
             /\ r.balance = nBalance
             /\ \A u \in TokenIds \ {id} : r.owner[u] = nOwner[u]
             /\ r.owner[id] = IF SetOwnerWrites(id) THEN to ELSE nOwner[id]
             /\ ~SetOwnerWrites(id) => r = NState
       /\ \A A \in Addr, t \in 0..(MaxU32 - 1) :
             ( /\ last'.op \in {"Consecutive::transfer_from", "Consecutive::burn_from"}
               /\ last'.res = "ok"
               /\ last'.from = A
               /\ last'.id = t )
             => nOwner'[t + 1] = IF SetOwnerWrites(t + 1) THEN A ELSE nOwner[t + 1]]_vars

\* token 0 of a batch left its owner, who now holds the record of token 1
C39_Witness ==
    /\ last.op = "Consecutive::transfer_from" /\ last.res = "ok"
    /\ last.id = 0 /\ last.to # last.from
    /\ counter > 1
    /\ nOwner[0] = last.to
    /\ nOwner[1] = last.from
    /\ ~cBurned[1]

(***************************************************************************)
(* Consecutive ledger: rejections and the approval gate                    *)
(***************************************************************************)
\* the invocation aborted with the error and wrote nothing to the owner
\* records, the balances and the approval slots before it did
RejectedWith(r, error) ==
    /\ r.err = error
    /\ r.owner = nOwner
    /\ r.balance = nBalance
    /\ r.approval = nApproval
    /\ r.burned = cBurned

\* check_spender_approval(spender, from, id) lets the spender through
PassesGate(spender, from, id) ==
    \/ spender = from
    \/ get_approved(NState, id) = spender
    \/ is_approved_for_all(NState, from, spender)

OwnerRecords(id) == {i \in 0..id : nOwner[i] # None}

\* C27: every id below next_token_id without a burn marker has an owner
\* record at some index <= id, so owner_of(id) does not abort and returns the
\* account recorded at the nearest such index
C27_OwnerResolution ==
    \A id \in TokenIds :
        (id < next_token_id(NState) /\ ~cBurned[id]) =>
            /\ OwnerRecords(id) # {}
            /\ Consecutive_owner_of(NState, id) # None
            /\ \A i \in OwnerRecords(id) :
                  (\A j \in OwnerRecords(id) : j <= i)
                      => Consecutive_owner_of(NState, id) = nOwner[i]

\* a token without an owner record of its own resolves its owner above a
\* burned token
C27_Witness ==
    \E id \in TokenIds, j \in TokenIds :
        /\ j < id
        /\ id < next_token_id(NState)
        /\ cBurned[j]
        /\ ~cBurned[id]
        /\ nOwner[id] = None
        /\ Consecutive_owner_of(NState, id) \in Addr

\* the account is the inferred owner of id or a live operator of it
ConsecutiveValidApprover(account, id) ==
    LET owner == Consecutive_owner_of(NState, id) IN
    /\ owner # None
    /\ \/ account = owner
       \/ is_approved_for_all(NState, owner, account)

\* C28: Consecutive approve commits only if the approver is the inferred
\* owner of id or a live operator of it; transfer_from and burn_from commit
\* only if the spender is the inferred owner, the live approved account of id
\* or a live operator of the inferred owner; tokens without an owner record of
\* their own included
C28_ConsecutiveGate ==
    \A spender \in Addr, from \in Addr, to \in Addr, id \in TokenIds :
        /\ \A live \in LiveInputs :
              Consecutive_approve(NState, spender, spender, to, id, live).err = "ok"
                  => ConsecutiveValidApprover(spender, id)
        /\ (\/ Consecutive_transfer_from(NState, spender, spender, from, to, id).err = "ok"
            \/ Consecutive_burn_from(NState, spender, spender, from, id).err = "ok")
               => \/ ConsecutiveValidApprover(spender, id)
                  \/ /\ Consecutive_owner_of(NState, id) # None
                     /\ get_approved(NState, id) = spender

\* a2 moved a token of a1 that has no owner record of its own on the
\* strength of the token's approval, while another token carries an approval
\* for a2 that has expired
C28_Witness ==
    /\ last.op = "Consecutive::transfer_from" /\ last.res = "ok"
    /\ last.from = "a1" /\ last.to = "a2"
    /\ last.id > 0
    /\ ~nOperators[<<"a1", "a2">>].present
    /\ \E u \in TokenIds :
          /\ Consecutive_owner_of(NState, u) = "a1"
          /\ nApproval[u].present
          /\ nApproval[u].approved = "a2"
          /\ nApproval[u].live_until_ledger < ledger

\* C33: in every state reached by batch_mint with any amount >= 0, transfer,
\* transfer_from, burn and burn_from, an owner record exists only at ids
\* below next_token_id, and no id has both an owner record and a burn marker
C33_OwnerRecordsConfined ==
    \A id \in TokenIds :
        nOwner[id] # None => (id < next_token_id(NState) /\ ~cBurned[id])

C29_MintExistingRejected ==
    [][(last'.op = "Enumerable::non_sequential_mint" /\ last'.res = "ok")
          => nOwner[last'.id] = None]_vars

\* C30: in every state reached through Enumerable's own operations, transfer
\* and transfer_from of a token by its owner (transfer_from: with a spender
\* that passes the approval gate) commit for every recipient, from itself
\* included, and TokenNotFoundInOwnerList arises only for a token whose
\* reverse pointer is missing
C30_TransferCommits ==
    \A spender \in Addr, from \in Addr, to \in Addr, id \in TokenIds :
        LET t  == Enumerable_transfer(NState, from, from, to, id)
            tf == Enumerable_transfer_from(NState, spender, spender, from, to, id)
        IN /\ nOwner[id] = from => t.err = "ok"
           /\ (nOwner[id] = from /\ SpenderAllowed(spender, id)) => tf.err = "ok"
           /\ (t.err = "TokenNotFoundInOwnerList" \/ tf.err = "TokenNotFoundInOwnerList")
                 => OwnerTokensIndex[id] = NoEntry

\* the effect on the owner lists of removing token t from the list of A:
\* the token at A's last index moves to the index of t, the last index and
\* the reverse pointer of t are deleted, nothing else changes
SwapRemoved(A, t) ==
    LET i == OwnerTokensIndex[t]
        l == nBalance[A] - 1
        m == OwnerTokens[<<A, l>>]
    IN /\ OwnerTokens'[<<A, l>>] = NoEntry
       /\ OwnerTokensIndex'[t] = NoEntry
       /\ i # l => /\ OwnerTokens'[<<A, i>>] = m
                   /\ OwnerTokensIndex'[m] = i
       /\ \A k \in Addr \X TokenIds :
             k \notin {<<A, i>>, <<A, l>>} => OwnerTokens'[k] = OwnerTokens[k]
       /\ \A u \in TokenIds :
             (u # t /\ (u # m \/ i = l)) => OwnerTokensIndex'[u] = OwnerTokensIndex[u]

\* C31: a committed burn of token t of owner A, which removes t from A's
\* list, moves the token at A's last index to the index of t (with its
\* reverse pointer) and deletes the last index and the reverse pointer of t;
\* every other token of A keeps its index, the lists of the other owners are
\* unchanged, and nothing moves when t is the last element
C31_SwapRemoveFrame ==
    [][\A A \in Addr, t \in TokenIds :
          (/\ last'.op \in {"Enumerable::non_sequential_burn",
                            "Enumerable::non_sequential_burn_from"}
           /\ last'.res = "ok"
           /\ last'.from = A
           /\ last'.id = t) => SwapRemoved(A, t)]_vars

\* token 0 of a1 was burned while a1 held three tokens, and the token from
\* the last index took its place
C31_Witness ==
    /\ last.op = "Enumerable::non_sequential_burn" /\ last.res = "ok"
    /\ last.from = "a1" /\ last.id = 0
    /\ nBalance["a1"] = 2
    /\ OwnerTokens[<<"a1", 0>>] \notin {NoEntry, 0}
    /\ OwnerTokensIndex[OwnerTokens[<<"a1", 0>>]] = 0
    /\ OwnerTokens[<<"a1", 2>>] = NoEntry

\* C32: total_supply() equals the number of existing tokens and the sum of
\* all balances in every state reached by the Enumerable mints, burns and
\* transfers; decrement_total_supply at 0 aborts with MathOverflow and
\* increment_total_supply at the maximum aborts with TokenIDsAreDepleted, so
\* the counter stays within 0..MaxU32
C32_TotalSupply ==
    /\ eTotalSupply = Cardinality(Existing)
    /\ eTotalSupply = SumOver(nBalance, Addr)
    /\ eTotalSupply \in 0..MaxU32
    /\ eTotalSupply = 0 => decrement_total_supply(NState).err = "MathOverflow"
    /\ eTotalSupply = MaxU32
          => increment_total_supply(NState).err = "TokenIDsAreDepleted"

(***************************************************************************)
(* Upgradeable: sequencing of upgrade, migrate and rollback                *)
(***************************************************************************)
\* C22: a migrate invocation commits only after an upgrade invocation has
\* committed, and on a contract on which upgrade was never called migrate
\* aborts with MigrationNotAllowed
C22_MigrateAfterUpgrade ==
    (last.op = "migrate" /\ last.res = "ok") => hUpgraded > 0

\* C23: a rollback invocation commits only in state Migrated, reached by a
\* migrate that committed with no upgrade and no rollback committed after
\* it; in every other state rollback aborts with RollbackNotAllowed and
\* leaves the flag and the bytecode as they were
C23_RollbackAfterMigrate ==
    [][last'.op = "rollback" =>
          /\ can_rollback(UState) <=> upgradeState = "Migrated"
          /\ last'.res = "ok" => /\ upgradeState = "Migrated"
                                 /\ hMigrated = 1
                                 /\ hRolledBack = 0
          /\ upgradeState # "Migrated" => /\ last'.res = "RollbackNotAllowed"
                                          /\ upgradeState' = upgradeState
                                          /\ wasm' = wasm]_vars

C23_Witness ==
    /\ last.op = "rollback"
    /\ last.res = "ok"
    /\ upgradeState = "RolledBack"
    /\ hUpgraded > 0

\* the flag as the entry points read it
UpgradeFlag == get_upgrade_state(UState)

\* C24: the flag changes only by upgrade (to Initial, from any state), by
\* migrate (Initial to Migrated) and by rollback (Migrated to RolledBack);
\* between two consecutive upgrades at most one migrate and at most one
\* rollback commit, a second migrate aborts with MigrationNotAllowed, and in
\* RolledBack both migrate and rollback abort, while upgrade reopens Initial
C24_FlagTransitions ==
    [][/\ UpgradeFlag' # UpgradeFlag =>
             \/ last'.op = "upgrade" /\ UpgradeFlag' = "Initial"
             \/ last'.op = "migrate" /\ UpgradeFlag = "Initial" /\ UpgradeFlag' = "Migrated"
             \/ last'.op = "rollback" /\ UpgradeFlag = "Migrated"
                                      /\ UpgradeFlag' = "RolledBack"
       /\ (last'.op = "upgrade" /\ last'.res = "ok") => UpgradeFlag' = "Initial"
       /\ hMigrated' <= 1
       /\ hRolledBack' <= 1
       /\ (last'.op = "migrate" /\ hMigrated >= 1) => last'.res = "MigrationNotAllowed"
       /\ (last'.op = "migrate" /\ UpgradeFlag = "RolledBack")
              => last'.res = "MigrationNotAllowed"
       /\ (last'.op = "rollback" /\ UpgradeFlag = "RolledBack")
              => last'.res = "RollbackNotAllowed"]_vars

C24_Witness ==
    /\ hUpgraded >= 2
    /\ UpgradeFlag = "RolledBack"
    /\ hMigrated = 1
    /\ hRolledBack = 1
    /\ last.op = "migrate"
    /\ last.res = "MigrationNotAllowed"

====
